---------------------------- MODULE Spec2Model ----------------------------
(***************************************************************************)
(* Model of the AQI backend: the provider fallback chain of                *)
(* RealAQIService (services/realAqiService.js), the mock service that the  *)
(* /api/aqi route is wired to (services/aqiService.js), the store          *)
(* (services/databaseService.js over prisma/schema.prisma) and the         *)
(* GET /api/aqi and GET /api/aqi/nearest handlers (routes/aqi.js).         *)
(*                                                                         *)
(* Units.  Time is in whole minutes.  Coordinates are pairs of integers in *)
(* 1e-4 degree.  Distances are in metres.  Concentrations handed to the    *)
(* converter are integers in 1/100 ug/m3; pollutant fields of a reading    *)
(* are integers in 1/10 ug/m3 (CO: 1/100 mg/m3), which is the precision    *)
(* the code rounds them to.                                                *)
(***************************************************************************)
EXTENDS Integers, Sequences, FiniteSets, TLC

(***************************************************************************)
(* Bounds of the model.                                                    *)
(***************************************************************************)
NumRequests == 2      \* GET /api/aqi requests in one behaviour
MaxTicks == 1         \* clock advances in one behaviour
MaxFaults == 1        \* store operations that fail in one behaviour
MaxProbes == 1        \* GET /api/aqi/nearest requests in one behaviour
MaxCalls == 2         \* service invocations in one behaviour of SpecSvc
MaxHours == 3         \* largest forecast horizon requested
MaxEntries == 2       \* requests in one behaviour of SpecEntry
MaxIndex == 600       \* largest index value given to the categorisers
MaxPoints == 5        \* longest forecast series summarised

(***************************************************************************)
(* Values JavaScript gives a missing or non-numeric field.                 *)
(***************************************************************************)
Num(n) == [kind |-> "number", val |-> n]
Undefined == [kind |-> "undefined", val |-> 0]
Null == [kind |-> "null", val |-> 0]
NaN == [kind |-> "NaN", val |-> 0]

IsNum(x) == x.kind = "number"

Max(a, b) == IF a >= b THEN a ELSE b
Min(a, b) == IF a <= b THEN a ELSE b

\* Math.round on the non-negative rational n/d (d > 0): half rounds up.
MathRound(n, d) == (2 * n + d) \div (2 * d)

(***************************************************************************)
(* Coordinates and great-circle distance.                                  *)
(***************************************************************************)
Mumbai == <<190760, 728777>>
MumbaiNear == <<190761, 728777>>
Pune == <<185204, 738567>>

Coordinates == {Mumbai, MumbaiNear, Pune}

\* The reference cities of getCityMockData, in the order of the source.
Cities == <<
  [name |-> "New Delhi", baseAQI |-> 180],
  [name |-> "Mumbai", baseAQI |-> 120],
  [name |-> "Bangalore", baseAQI |-> 100],
  [name |-> "Chennai", baseAQI |-> 110],
  [name |-> "Kolkata", baseAQI |-> 150],
  [name |-> "Hyderabad", baseAQI |-> 130],
  [name |-> "Pune", baseAQI |-> 115],
  [name |-> "Ahmedabad", baseAQI |-> 125] >>

\* calculateDistance between two modelled coordinates: the value of the
\* haversine formula (R = 6371 km) at these coordinates, in metres.
calculateDistance(p, q) ==
  IF p = q THEN 0
  ELSE IF {p, q} = {Mumbai, MumbaiNear} THEN 11
  ELSE IF {p, q} = {Mumbai, Pune} THEN 120152
  ELSE 120158

\* calculateDistance from a modelled coordinate to each reference city, in
\* the order of Cities, in metres.
CityDistance(p) ==
  IF p = Mumbai
    THEN <<1148095, 0, 845318, 1033099, 1654839, 621463, 120152, 439980>>
  ELSE IF p = MumbaiNear
    THEN <<1148085, 11, 845327, 1033106, 1654836, 621466, 120158, 439969>>
  ELSE <<1172995, 120152, 735227, 914365, 1575376, 505754, 0, 518126>>

\* The loop of getCityMockData: the first city at the least distance.
RECURSIVE ClosestFrom(_, _, _)
ClosestFrom(d, i, best) ==
  IF i > Len(d) THEN best
  ELSE ClosestFrom(d, i + 1, IF d[i] < d[best] THEN i ELSE best)

getCityMockData(p) == Cities[ClosestFrom(CityDistance(p), 1, 1)]

(***************************************************************************)
(* Breakpoint converter.                                                   *)
(***************************************************************************)
PM25Breakpoints == <<
  [cLow |-> 0, cHigh |-> 30, iLow |-> 0, iHigh |-> 50],
  [cLow |-> 30, cHigh |-> 60, iLow |-> 51, iHigh |-> 100],
  [cLow |-> 60, cHigh |-> 90, iLow |-> 101, iHigh |-> 200],
  [cLow |-> 90, cHigh |-> 120, iLow |-> 201, iHigh |-> 300],
  [cLow |-> 120, cHigh |-> 250, iLow |-> 301, iHigh |-> 400],
  [cLow |-> 250, cHigh |-> 500, iLow |-> 401, iHigh |-> 500] >>

PM10Breakpoints == <<
  [cLow |-> 0, cHigh |-> 50, iLow |-> 0, iHigh |-> 50],
  [cLow |-> 50, cHigh |-> 100, iLow |-> 51, iHigh |-> 100],
  [cLow |-> 100, cHigh |-> 250, iLow |-> 101, iHigh |-> 200],
  [cLow |-> 250, cHigh |-> 350, iLow |-> 201, iHigh |-> 300],
  [cLow |-> 350, cHigh |-> 430, iLow |-> 301, iHigh |-> 400],
  [cLow |-> 430, cHigh |-> 500, iLow |-> 401, iHigh |-> 500] >>

NO2Breakpoints == <<
  [cLow |-> 0, cHigh |-> 40, iLow |-> 0, iHigh |-> 50],
  [cLow |-> 40, cHigh |-> 80, iLow |-> 51, iHigh |-> 100],
  [cLow |-> 80, cHigh |-> 180, iLow |-> 101, iHigh |-> 200],
  [cLow |-> 180, cHigh |-> 280, iLow |-> 201, iHigh |-> 300],
  [cLow |-> 280, cHigh |-> 400, iLow |-> 301, iHigh |-> 400],
  [cLow |-> 400, cHigh |-> 500, iLow |-> 401, iHigh |-> 500] >>

\* A concentration as the comparison and the arithmetic of calculateSubIndex
\* see it: null coerces to 0; a number is itself (in 1/100 ug/m3).
ToNumber(c) == IF c = Null THEN 0 ELSE c.val

\* calculateSubIndex, as the exact rational <<numerator, denominator>>: the
\* first segment with cLow <= c <= cHigh interpolates, no segment gives 500.
\* A NaN concentration matches no segment.
RECURSIVE SubIndexFrom(_, _, _)
SubIndexFrom(c, breakpoints, i) ==
  IF i > Len(breakpoints) THEN <<500, 1>>
  ELSE LET bp == breakpoints[i]
       IN IF c >= 100 * bp.cLow /\ c <= 100 * bp.cHigh
            THEN << (bp.iHigh - bp.iLow) * (c - 100 * bp.cLow)
                      + bp.iLow * 100 * (bp.cHigh - bp.cLow),
                    100 * (bp.cHigh - bp.cLow) >>
            ELSE SubIndexFrom(c, breakpoints, i + 1)

\* calculateSubIndex with the index bounds of the segment exchanged.
calculateSubIndex_Swapped(concentration, breakpoints) ==
  IF concentration = NaN THEN <<500, 1>>
  ELSE LET c == ToNumber(concentration)
           ks == {k \in 1..Len(breakpoints) :
                    c >= 100 * breakpoints[k].cLow /\ c <= 100 * breakpoints[k].cHigh}
       IN IF ks = {} THEN <<500, 1>>
          ELSE LET bp == breakpoints[CHOOSE k \in ks : \A j \in ks : k <= j]
               IN << (bp.iLow - bp.iHigh) * (c - 100 * bp.cLow)
                       + bp.iHigh * 100 * (bp.cHigh - bp.cLow),
                     100 * (bp.cHigh - bp.cLow) >>

calculateSubIndex(concentration, breakpoints) ==
  IF concentration = NaN THEN <<500, 1>>
  ELSE SubIndexFrom(ToNumber(concentration), breakpoints, 1)

\* a <= b on rationals with positive denominators: the whole parts first,
\* then the fractions, which keeps the products small.
RatLeq(a, b) ==
  LET qa == a[1] \div a[2]
      qb == b[1] \div b[2]
  IN IF qa # qb THEN qa < qb
     ELSE (a[1] % a[2]) * b[2] <= (b[1] % b[2]) * a[2]

RatMax(a, b) == IF RatLeq(b, a) THEN a ELSE b

\* The array aqiValues of convertToIndianAQI before Math.max: one
\* sub-index pushed for each of pm25, pm10, no2 that is not undefined.
aqiValues(pm25, pm10, no2) ==
  (IF pm25 # Undefined
     THEN <<calculateSubIndex(pm25, PM25Breakpoints)>> ELSE <<>>)
  \o (IF pm10 # Undefined
        THEN <<calculateSubIndex(pm10, PM10Breakpoints)>> ELSE <<>>)
  \o (IF no2 # Undefined
        THEN <<calculateSubIndex(no2, NO2Breakpoints)>> ELSE <<>>)

\* convertToIndianAQI without the 1 among the values of Math.max.
convertToIndianAQI_NoFloor(pm25, pm10, no2, so2, co, o3) ==
  LET s1 == IF pm25 # Undefined
              THEN calculateSubIndex(pm25, PM25Breakpoints) ELSE <<0, 1>>
      s2 == IF pm10 # Undefined
              THEN calculateSubIndex(pm10, PM10Breakpoints) ELSE <<0, 1>>
      s3 == IF no2 # Undefined
              THEN calculateSubIndex(no2, NO2Breakpoints) ELSE <<0, 1>>
      m == RatMax(RatMax(s1, s2), s3)
  IN MathRound(m[1], m[2])

\* convertToIndianAQI: Math.round(Math.max(...aqiValues, 1)) over the
\* sub-indices of the arguments that are not undefined.  Only pm25, pm10 and
\* no2 are read; so2, co and o3 are parameters the body never uses.
convertToIndianAQI(pm25, pm10, no2, so2, co, o3) ==
  LET s1 == IF pm25 # Undefined
              THEN calculateSubIndex(pm25, PM25Breakpoints) ELSE <<1, 1>>
      s2 == IF pm10 # Undefined
              THEN calculateSubIndex(pm10, PM10Breakpoints) ELSE <<1, 1>>
      s3 == IF no2 # Undefined
              THEN calculateSubIndex(no2, NO2Breakpoints) ELSE <<1, 1>>
      m == RatMax(RatMax(s1, s2), RatMax(s3, <<1, 1>>))
  IN MathRound(m[1], m[2])

\* convertUSAQIToIndian on an integer US AQI (1.33 = 133/100, 1.5 = 3/2).
convertUSAQIToIndian(usAQI) ==
  IF usAQI <= 50 THEN usAQI
  ELSE IF usAQI <= 100 THEN usAQI
  ELSE IF usAQI <= 150 THEN MathRound(usAQI * 133, 100)
  ELSE IF usAQI <= 200 THEN MathRound(usAQI * 3, 2)
  ELSE IF usAQI <= 300 THEN MathRound(usAQI * 133, 100)
  ELSE Min(usAQI, 500)

\* getAQICategory with the upper bounds exclusive.
getAQICategory_Strict(aqi) ==
  IF aqi < 50 THEN "Good"
  ELSE IF aqi < 100 THEN "Satisfactory"
  ELSE IF aqi < 200 THEN "Moderate"
  ELSE IF aqi < 300 THEN "Poor"
  ELSE IF aqi < 400 THEN "Very Poor"
  ELSE "Severe"

getAQICategory(aqi) ==
  IF aqi <= 50 THEN "Good"
  ELSE IF aqi <= 100 THEN "Satisfactory"
  ELSE IF aqi <= 200 THEN "Moderate"
  ELSE IF aqi <= 300 THEN "Poor"
  ELSE IF aqi <= 400 THEN "Very Poor"
  ELSE "Severe"


(***************************************************************************)
(* State.                                                                  *)
(***************************************************************************)
VARIABLES
  useRealData,        \* RealAQIService.useRealData
  openWeatherApiKey,  \* RealAQIService.openWeatherApiKey: "unset", "placeholder", "key"
  iqAirApiKey,        \* RealAQIService.iqAirApiKey: "unset", "placeholder", "key"
  svc,                \* the RealAQIService invocation in progress
  owmCalls,           \* axios.get calls to OpenWeatherMap air_pollution in this invocation
  iqCalls,            \* axios.get calls to IQAir in this invocation
  fcCalls,            \* axios.get calls to OpenWeatherMap air_pollution/forecast
  calls,              \* invocations started
  owmUp,              \* whether OpenWeatherMap answers requests with a usable body
  now,                \* Date.now(), in minutes
  locations,          \* rows of table locations
  logs,               \* rows of table aqi_logs
  nextId,             \* the next generated row id
  req,                \* the GET /api/aqi requests, by number
  probe,              \* the GET /api/aqi/nearest request in progress
  probes,             \* GET /api/aqi/nearest requests so far
  ticks,              \* clock advances so far
  faults              \* store operations that have failed so far

svcVars == <<useRealData, openWeatherApiKey, iqAirApiKey, svc, owmCalls,
             iqCalls, fcCalls, calls, owmUp>>

storeVars == <<locations, logs, nextId, req, probe, probes, ticks, faults>>

KeyStates == {"unset", "placeholder", "key"}

(***************************************************************************)
(* Readings.                                                               *)
(***************************************************************************)
\* Math.round(x * 10) / 10 of a concentration in 1/100, in 1/10.
RoundTenth(x) ==
  IF IsNum(x) THEN Num(MathRound(x.val, 10))
  ELSE IF x = Null THEN Num(0) ELSE NaN

\* Math.round(co / 1000 * 100) / 100: ug/m3 in 1/100 to mg/m3 in 1/100.
RoundCO(x) ==
  IF IsNum(x) THEN Num(MathRound(x.val, 1000))
  ELSE IF x = Null THEN Num(0) ELSE NaN

\* The draws of Math.random() in getMockAQIData, each as the integer it
\* contributes: aqi = floor(random * 40) in 0..39, the pollutants the rounded
\* random term in the unit of the field.
RandomDraws == {
  [aqi |-> 0, pm25 |-> 100, pm10 |-> 0, no2 |-> 80, so2 |-> 0, co |-> 50, o3 |-> 0],
  [aqi |-> 39, pm25 |-> 37, pm10 |-> 150, no2 |-> 0, so2 |-> 50, co |-> 33, o3 |-> 60] }

\* getMockAQIData without the isError distinction.
getMockAQIData_OneTag(p, isError, rnd) ==
  LET cityData == getCityMockData(p)
      baseAQI == cityData.baseAQI + rnd.aqi - 20
      aqi == Max(1, Min(500, baseAQI))
  IN [ latitude |-> p[1], longitude |-> p[2],
       name |-> cityData.name,
       stationType |-> "Mock-Development",
       value |-> aqi,
       category |-> getAQICategory(aqi),
       lastUpdated |-> now,
       pm25 |-> Num(aqi * 6 + rnd.pm25),
       pm10 |-> Num(aqi * 12 + rnd.pm10),
       no2 |-> Num(aqi * 4 + rnd.no2),
       so2 |-> Num(aqi * 2 + rnd.so2),
       co |-> Num(aqi + rnd.co),
       o3 |-> Num(aqi * 3 + rnd.o3),
       nh3 |-> Undefined,
       source |-> "Mock-Development",
       isRealData |-> FALSE,
       origin |-> "synthetic" ]

\* getMockAQIData with the random term of the index twice as wide.
getMockAQIData_WideNoise(p, isError, rnd) ==
  LET cityData == getCityMockData(p)
      baseAQI == cityData.baseAQI + 2 * rnd.aqi - 20
      aqi == Max(1, Min(500, baseAQI))
  IN [ latitude |-> p[1], longitude |-> p[2],
       name |-> cityData.name,
       stationType |-> IF isError THEN "Mock-Fallback" ELSE "Mock-Development",
       value |-> aqi,
       category |-> getAQICategory(aqi),
       lastUpdated |-> now,
       pm25 |-> Num(aqi * 6 + rnd.pm25),
       pm10 |-> Num(aqi * 12 + rnd.pm10),
       no2 |-> Num(aqi * 4 + rnd.no2),
       so2 |-> Num(aqi * 2 + rnd.so2),
       co |-> Num(aqi + rnd.co),
       o3 |-> Num(aqi * 3 + rnd.o3),
       nh3 |-> Undefined,
       source |-> IF isError THEN "Mock-Fallback" ELSE "Mock-Development",
       isRealData |-> FALSE,
       origin |-> "synthetic" ]

\* RealAQIService.getMockAQIData.  origin is not a field of the code's
\* object: it records which generator produced the reading.
getMockAQIData(p, isError, rnd) ==
  LET cityData == getCityMockData(p)
      baseAQI == cityData.baseAQI + rnd.aqi - 20
      aqi == Max(1, Min(500, baseAQI))
  IN [ latitude |-> p[1], longitude |-> p[2],
       name |-> cityData.name,
       stationType |-> IF isError THEN "Mock-Fallback" ELSE "Mock-Development",
       value |-> aqi,
       category |-> getAQICategory(aqi),
       lastUpdated |-> now,
       pm25 |-> Num(aqi * 6 + rnd.pm25),
       pm10 |-> Num(aqi * 12 + rnd.pm10),
       no2 |-> Num(aqi * 4 + rnd.no2),
       so2 |-> Num(aqi * 2 + rnd.so2),
       co |-> Num(aqi + rnd.co),
       o3 |-> Num(aqi * 3 + rnd.o3),
       nh3 |-> Undefined,
       source |-> IF isError THEN "Mock-Fallback" ELSE "Mock-Development",
       isRealData |-> FALSE,
       origin |-> "synthetic" ]

\* calculateDistance from a modelled coordinate to the two cities that
\* getCityFromCoordinates lists after those of Cities (Jaipur, Surat).
MoreCityDistance(p) ==
  IF p = Mumbai THEN <<920742, 232915>>
  ELSE IF p = MumbaiNear THEN <<920732, 232904>>
  ELSE <<953871, 313559>>

MoreCityNames == <<"Jaipur", "Surat">>

getCityFromCoordinates(p) ==
  LET d == CityDistance(p) \o MoreCityDistance(p)
      i == ClosestFrom(d, 1, 1)
  IN IF i <= Len(Cities) THEN Cities[i].name ELSE MoreCityNames[i - Len(Cities)]

\* formatOpenWeatherMapResponse on list[0] = [components, dt].
formatOpenWeatherMapResponse(pollution, p) ==
  LET components == pollution.components
      indianAQI == convertToIndianAQI(components.pm2_5, components.pm10,
                     components.no2, components.so2, components.co, components.o3)
  IN [ latitude |-> p[1], longitude |-> p[2],
       name |-> getCityFromCoordinates(p),
       stationType |-> "OpenWeatherMap",
       value |-> indianAQI,
       category |-> getAQICategory(indianAQI),
       lastUpdated |-> pollution.dt,
       pm25 |-> RoundTenth(components.pm2_5),
       pm10 |-> RoundTenth(components.pm10),
       no2 |-> RoundTenth(components.no2),
       so2 |-> RoundTenth(components.so2),
       co |-> RoundCO(components.co),
       o3 |-> RoundTenth(components.o3),
       nh3 |-> RoundTenth(components.nh3),
       source |-> "OpenWeatherMap",
       isRealData |-> TRUE,
       origin |-> "OpenWeatherMap" ]

\* pollution.p2?.v || 0: a missing or zero value becomes 0.
OrZero(x) == IF IsNum(x) THEN x ELSE Num(0)

\* formatIQAirResponse on data.data = [city, pollution].
formatIQAirResponse(data, p) ==
  LET pollution == data.pollution
      indianAQI == convertUSAQIToIndian(pollution.aqius)
  IN [ latitude |-> p[1], longitude |-> p[2],
       name |-> data.city,
       stationType |-> "IQAir",
       value |-> indianAQI,
       category |-> getAQICategory(indianAQI),
       lastUpdated |-> pollution.ts,
       pm25 |-> OrZero(pollution.p2),
       pm10 |-> OrZero(pollution.p1),
       no2 |-> Null,
       so2 |-> Null,
       co |-> Null,
       o3 |-> Null,
       nh3 |-> Undefined,
       source |-> "IQAir",
       isRealData |-> TRUE,
       origin |-> "IQAir" ]


(***************************************************************************)
(* Provider responses.  status is what axios.get does: "ok" resolves with  *)
(* a body; "network", "timeout" (the 10 s timeout) and "auth" (HTTP 401 or *)
(* 429) reject.                                                            *)
(***************************************************************************)
FullComponents ==
  [pm2_5 |-> Num(3500), pm10 |-> Num(4000), no2 |-> Num(1000), so2 |-> Num(500),
   co |-> Num(30000), o3 |-> Num(2000), nh3 |-> Num(100)]

PartialComponents == [FullComponents EXCEPT !.pm2_5 = Undefined]

NoComponents ==
  [pm2_5 |-> Undefined, pm10 |-> Undefined, no2 |-> Undefined, so2 |-> Undefined,
   co |-> Undefined, o3 |-> Undefined, nh3 |-> Undefined]

OwmItem(has, comps) == [hasComponents |-> has, components |-> comps, dt |-> now]

OwmResponses ==
  { [status |-> st, hasList |-> FALSE, list |-> <<>>] :
      st \in {"network", "timeout", "auth", "ok"} }
  \cup
  { [status |-> "ok", hasList |-> TRUE, list |-> l] :
      l \in { <<>>,
              << OwmItem(FALSE, NoComponents) >>,
              << OwmItem(TRUE, FullComponents) >>,
              << OwmItem(TRUE, PartialComponents) >> } }

IqPollution(aqius, p2) == [aqius |-> aqius, ts |-> now, p2 |-> p2, p1 |-> Undefined]

IqData(hasCurrent, aqius, p2) ==
  [hasCurrent |-> hasCurrent, city |-> "Mumbai", pollution |-> IqPollution(aqius, p2)]

IqResponses ==
  { [status |-> st, dataStatus |-> "fail", hasData |-> FALSE,
     data |-> IqData(FALSE, 0, Undefined)] :
      st \in {"network", "timeout", "auth", "ok"} }
  \cup
  { [status |-> "ok", dataStatus |-> "success", hasData |-> h, data |-> d] :
      h \in BOOLEAN,
      d \in { IqData(FALSE, 0, Undefined), IqData(TRUE, 42, Undefined),
              IqData(TRUE, 160, Num(655)) } }

\* The responses on which the provider did not deliver a usable body.
OwmFailed(resp) ==
  \/ resp.status # "ok"
  \/ ~resp.hasList
  \/ Len(resp.list) = 0
  \/ ~resp.list[1].hasComponents

IqFailed(resp) ==
  \/ resp.status # "ok"
  \/ resp.dataStatus # "success"
  \/ ~resp.hasData
  \/ ~resp.data.hasCurrent

(***************************************************************************)
(* Adapters.  Thrown is a rejected promise; neither adapter produces it,   *)
(* since each wraps its whole body in try/catch.                           *)
(***************************************************************************)
Thrown == [kind |-> "thrown", val |-> 0]

IsReading(x) == "source" \in DOMAIN x

\* fetchFromOpenWeatherMap without its try/catch: a rejected request rejects.
fetchFromOpenWeatherMap_NoCatch(resp, p) ==
  IF resp.status # "ok" THEN Thrown
  ELSE IF ~resp.hasList \/ Len(resp.list) = 0 THEN Thrown
  ELSE IF ~resp.list[1].hasComponents THEN Thrown
  ELSE formatOpenWeatherMapResponse(resp.list[1], p)

\* fetchFromOpenWeatherMap: a rejected request, a missing or empty list and a
\* TypeError on list[0].components all end in the catch block.
fetchFromOpenWeatherMap(resp, p) ==
  IF resp.status # "ok" THEN Null
  ELSE IF ~resp.hasList \/ Len(resp.list) = 0 THEN Null
  ELSE IF ~resp.list[1].hasComponents THEN Null
  ELSE formatOpenWeatherMapResponse(resp.list[1], p)

\* fetchFromIQAir: data.current missing is a TypeError in
\* formatIQAirResponse, caught with the rest.
fetchFromIQAir(resp, p) ==
  IF resp.status # "ok" THEN Null
  ELSE IF resp.dataStatus # "success" \/ ~resp.hasData THEN Null
  ELSE IF ~resp.data.hasCurrent THEN Null
  ELSE formatIQAirResponse(resp.data, p)


(***************************************************************************)
(* Forecast series.                                                        *)
(***************************************************************************)
\* The integers Math.round(Math.sin(i / 12) * 30 + Math.random() * 20 - 10)
\* ranges over, for i = 1, 2, ...: the least and the greatest.
VariationRange == <<
  [lo |-> -8, hi |-> 12], [lo |-> -5, hi |-> 15], [lo |-> -3, hi |-> 17],
  [lo |-> 0, hi |-> 20], [lo |-> 2, hi |-> 22] >>

\* getMockForecastData with the sign of the confidence term reversed.
getMockForecastData_Rising(p, hours, draw) ==
  LET baseAQI == getCityMockData(p).baseAQI
      point(i) ==
        LET variation == IF draw = "lo" THEN VariationRange[i].lo
                         ELSE VariationRange[i].hi
            predictedAqi == Max(10, Min(450, baseAQI + variation))
        IN [ timestamp |-> now + 60 * i,
             hoursAhead |-> i,
             predictedAqi |-> predictedAqi,
             confidence |-> <<75 * hours + 20 * i, 100 * hours>>,
             category |-> getAQICategory(predictedAqi) ]
  IN [ location |-> getCityFromCoordinates(p),
       forecast |-> [i \in 1..hours |-> point(i)],
       model |-> "Mock_LSTM",
       source |-> "mock_data",
       isRealData |-> FALSE ]

\* getMockForecastData; draw says which end of its range each variation takes.
\* confidence is the rational <<numerator, denominator>> of 0.75 - (i / hours) * 0.2.
getMockForecastData(p, hours, draw) ==
  LET baseAQI == getCityMockData(p).baseAQI
      point(i) ==
        LET variation == IF draw = "lo" THEN VariationRange[i].lo
                         ELSE VariationRange[i].hi
            predictedAqi == Max(10, Min(450, baseAQI + variation))
        IN [ timestamp |-> now + 60 * i,
             hoursAhead |-> i,
             predictedAqi |-> predictedAqi,
             confidence |-> <<75 * hours - 20 * i, 100 * hours>>,
             category |-> getAQICategory(predictedAqi) ]
  IN [ location |-> getCityFromCoordinates(p),
       forecast |-> [i \in 1..hours |-> point(i)],
       model |-> "Mock_LSTM",
       source |-> "mock_data",
       isRealData |-> FALSE ]

ForecastItem(has, comps, i) ==
  [hasComponents |-> has, components |-> comps, dt |-> now + 60 * i]

ForecastResponses ==
  { [status |-> st, hasList |-> FALSE, list |-> <<>>] :
      st \in {"network", "timeout", "auth", "ok"} }
  \cup
  { [status |-> "ok", hasList |-> TRUE, list |-> l] :
      l \in { <<>>,
              << ForecastItem(TRUE, FullComponents, 1),
                 ForecastItem(TRUE, PartialComponents, 2) >>,
              << ForecastItem(TRUE, FullComponents, 1),
                 ForecastItem(FALSE, NoComponents, 2) >> } }

\* fetchForecastData without the limit to the requested hours.
ForecastResult_NoLimit(resp, p, hours, draw) ==
  IF resp.status # "ok" THEN getMockForecastData(p, hours, draw)
  ELSE IF ~resp.hasList \/ Len(resp.list) = 0
    THEN getMockForecastData(p, hours, draw)
  ELSE IF \E i \in 1..Len(resp.list) : ~resp.list[i].hasComponents
    THEN getMockForecastData(p, hours, draw)
  ELSE
    [ location |-> getCityFromCoordinates(p),
      forecast |->
        [i \in 1..Len(resp.list) |->
           LET item == resp.list[i]
               indianAQI == convertToIndianAQI(item.components.pm2_5,
                              item.components.pm10, item.components.no2,
                              item.components.so2, item.components.co,
                              item.components.o3)
           IN [ timestamp |-> item.dt,
                hoursAhead |-> i,
                predictedAqi |-> indianAQI,
                confidence |-> <<85, 100>>,
                category |-> getAQICategory(indianAQI) ] ],
      model |-> "OpenWeatherMap",
      source |-> "real_api",
      isRealData |-> TRUE ]

\* The body of the try block of fetchForecastData once axios.get has
\* settled; every exception in it ends in getMockForecastData.
ForecastResult(resp, p, hours, draw) ==
  IF resp.status # "ok" THEN getMockForecastData(p, hours, draw)
  ELSE IF ~resp.hasList \/ Len(resp.list) = 0
    THEN getMockForecastData(p, hours, draw)
  ELSE LET maxEntries == Min(hours, Len(resp.list))
       IN IF \E i \in 1..maxEntries : ~resp.list[i].hasComponents
            THEN getMockForecastData(p, hours, draw)
          ELSE
            [ location |-> getCityFromCoordinates(p),
              forecast |->
                [i \in 1..maxEntries |->
                   LET item == resp.list[i]
                       indianAQI == convertToIndianAQI(item.components.pm2_5,
                                      item.components.pm10, item.components.no2,
                                      item.components.so2, item.components.co,
                                      item.components.o3)
                   IN [ timestamp |-> item.dt,
                        hoursAhead |-> i,
                        predictedAqi |-> indianAQI,
                        confidence |-> <<85, 100>>,
                        category |-> getAQICategory(indianAQI) ] ],
              model |-> "OpenWeatherMap",
              source |-> "real_api",
              isRealData |-> TRUE ]

(***************************************************************************)
(* RealAQIService.fetchRealTimeAQI and fetchForecastData, one invocation   *)
(* at a time, each await a step.                                           *)
(***************************************************************************)
\* The guard of fetchRealTimeAQI's first return.
Offline ==
  ~useRealData \/ openWeatherApiKey = "unset" \/ openWeatherApiKey = "placeholder"

\* The guard of fetchForecastData's first return.
ForecastOffline == ~useRealData \/ openWeatherApiKey = "unset"

IqAirConfigured == iqAirApiKey # "unset" /\ iqAirApiKey # "placeholder"

\* No response yet.
NoOwmResponse == [status |-> "none", hasList |-> FALSE, list |-> <<>>]

NoIqResponse ==
  [status |-> "none", dataStatus |-> "fail", hasData |-> FALSE,
   data |-> Undefined]

\* owmResp and iqResp keep what the providers answered in this invocation.
\* The current reading the caller was given last: where, its index value
\* and whether a generator produced it.
NoLast == [set |-> FALSE, coord |-> Mumbai, value |-> 0, synthetic |-> FALSE]

IdleSvc ==
  [pc |-> "idle", op |-> "none", coord |-> Mumbai, hours |-> 0,
   owmResp |-> NoOwmResponse, iqResp |-> NoIqResponse,
   owmData |-> Undefined, iqAirData |-> Undefined, result |-> Undefined,
   fcStatus |-> "none", listLength |-> 0, last |-> NoLast]

\* fetchRealTimeAQI without its use of the IQAir reading.
AfterIQAir_NoSecondary(iqAirData, p, rnd) == getMockAQIData(p, TRUE, rnd)

\* fetchRealTimeAQI filling the pollutants the IQAir reading lacks from the
\* generator.
AfterIQAir_Merged(iqAirData, p, rnd) ==
  IF iqAirData = Thrown THEN getMockAQIData(p, TRUE, rnd)
  ELSE IF iqAirData # Null
    THEN [iqAirData EXCEPT !.no2 = getMockAQIData(p, TRUE, rnd).no2,
                           !.so2 = getMockAQIData(p, TRUE, rnd).so2]
  ELSE getMockAQIData(p, TRUE, rnd)

\* fetchRealTimeAQI rejecting when the IQAir adapter gave no reading.
AfterIQAir_Rethrow(iqAirData, p, rnd) ==
  IF iqAirData = Thrown THEN Thrown
  ELSE IF iqAirData # Null THEN iqAirData
  ELSE Thrown

\* What fetchRealTimeAQI returns once the IQAir adapter has settled.
AfterIQAir(iqAirData, p, rnd) ==
  IF iqAirData = Thrown THEN getMockAQIData(p, TRUE, rnd)
  ELSE IF iqAirData # Null THEN iqAirData
  ELSE getMockAQIData(p, TRUE, rnd)

fetchRealTimeAQI(p) ==
  /\ svc.pc = "idle"
  /\ calls < MaxCalls
  /\ calls' = calls + 1
  /\ iqCalls' = 0
  /\ fcCalls' = 0
  /\ IF Offline
       THEN /\ \E rnd \in RandomDraws :
                 svc' = [IdleSvc EXCEPT !.pc = "done", !.op = "current", !.coord = p,
                                        !.last = svc.last,
                                        !.result = getMockAQIData(p, FALSE, rnd)]
            /\ owmCalls' = 0
       ELSE /\ svc' = [IdleSvc EXCEPT !.pc = "owm", !.op = "current", !.coord = p,
                                      !.last = svc.last]
            /\ owmCalls' = 1
  /\ UNCHANGED <<useRealData, openWeatherApiKey, iqAirApiKey, owmUp, now>>

OwmReturns(resp) ==
  /\ svc.pc = "owm"
  /\ owmUp = ~OwmFailed(resp)
  /\ LET owmData == fetchFromOpenWeatherMap(resp, svc.coord)
         s == [svc EXCEPT !.owmResp = resp, !.owmData = owmData]
     IN IF owmData = Thrown
          THEN /\ \E rnd \in RandomDraws :
                    svc' = [s EXCEPT !.pc = "done",
                                     !.result = getMockAQIData(svc.coord, TRUE, rnd)]
               /\ UNCHANGED iqCalls
        ELSE IF owmData # Null
          THEN /\ svc' = [s EXCEPT !.pc = "done", !.result = owmData]
               /\ UNCHANGED iqCalls
        ELSE IF IqAirConfigured
          THEN /\ svc' = [s EXCEPT !.pc = "iqair"]
               /\ iqCalls' = iqCalls + 1
        ELSE /\ \E rnd \in RandomDraws :
                  svc' = [s EXCEPT !.pc = "done",
                                   !.result = getMockAQIData(svc.coord, TRUE, rnd)]
             /\ UNCHANGED iqCalls
  /\ UNCHANGED <<useRealData, openWeatherApiKey, iqAirApiKey, owmCalls, fcCalls,
                 calls, owmUp, now>>

IqAirReturns(resp) ==
  /\ svc.pc = "iqair"
  /\ LET iqAirData == fetchFromIQAir(resp, svc.coord)
     IN \E rnd \in RandomDraws :
          svc' = [svc EXCEPT !.pc = "done", !.iqResp = resp, !.iqAirData = iqAirData,
                             !.result = AfterIQAir(iqAirData, svc.coord, rnd)]
  /\ UNCHANGED <<useRealData, openWeatherApiKey, iqAirApiKey, owmCalls, iqCalls,
                 fcCalls, calls, owmUp, now>>

fetchForecastData(p, hours) ==
  /\ svc.pc = "idle"
  /\ calls < MaxCalls
  /\ calls' = calls + 1
  /\ owmCalls' = 0
  /\ iqCalls' = 0
  /\ IF ForecastOffline
       THEN /\ \E draw \in {"lo", "hi"} :
                 svc' = [IdleSvc EXCEPT !.pc = "done", !.op = "forecast", !.coord = p,
                                        !.hours = hours, !.last = svc.last,
                                        !.result = getMockForecastData(p, hours, draw)]
            /\ fcCalls' = 0
       ELSE /\ svc' = [IdleSvc EXCEPT !.pc = "forecast", !.op = "forecast",
                                      !.coord = p, !.hours = hours,
                                      !.last = svc.last]
            /\ fcCalls' = 1
  /\ UNCHANGED <<useRealData, openWeatherApiKey, iqAirApiKey, owmUp, now>>

ForecastReturns(resp) ==
  /\ svc.pc = "forecast"
  /\ owmUp = (resp.status = "ok" /\ resp.hasList /\ Len(resp.list) > 0)
  /\ \E draw \in {"lo", "hi"} :
       svc' = [svc EXCEPT !.pc = "done",
                          !.fcStatus = resp.status,
                          !.listLength = Len(resp.list),
                          !.result = ForecastResult(resp, svc.coord, svc.hours, draw)]
  /\ UNCHANGED <<useRealData, openWeatherApiKey, iqAirApiKey, owmCalls, iqCalls,
                 fcCalls, calls, owmUp, now>>

\* OpenWeatherMap goes down or comes back.
ProviderChange ==
  /\ owmUp' = ~owmUp
  /\ UNCHANGED <<useRealData, openWeatherApiKey, iqAirApiKey, svc, owmCalls,
                 iqCalls, fcCalls, calls, now>>

\* The caller has the result; the service is free for the next invocation.
Return ==
  /\ svc.pc = "done"
  /\ svc' = [IdleSvc EXCEPT
       !.last = IF svc.op = "current" /\ IsReading(svc.result)
                  THEN [set |-> TRUE, coord |-> svc.coord,
                        value |-> svc.result.value,
                        synthetic |-> svc.result.origin = "synthetic"]
                ELSE svc.last]
  /\ owmCalls' = 0
  /\ iqCalls' = 0
  /\ fcCalls' = 0
  /\ UNCHANGED <<useRealData, openWeatherApiKey, iqAirApiKey, calls, owmUp, now>>


(***************************************************************************)
(* AQIService (services/aqiService.js), the service routes/aqi.js          *)
(* constructs.                                                             *)
(***************************************************************************)
\* AQIService.getMockAQIData marking its reading as real.
AQIService_getMockAQIData_Real(p, isError, rnd) ==
  LET cityData == getCityMockData(p)
      baseAQI == cityData.baseAQI + rnd.aqi - 20
      aqi == Max(1, Min(500, baseAQI))
  IN [ latitude |-> p[1], longitude |-> p[2],
       name |-> cityData.name,
       stationType |-> IF isError THEN "Mock-Fallback" ELSE "Mock-CPCB",
       value |-> aqi,
       category |-> getAQICategory(aqi),
       lastUpdated |-> now,
       pm25 |-> Num(aqi * 6 + rnd.pm25),
       pm10 |-> Num(aqi * 12 + rnd.pm10),
       no2 |-> Num(aqi * 4 + rnd.no2),
       so2 |-> Num(aqi * 2 + rnd.so2),
       co |-> Num(aqi + rnd.co),
       o3 |-> Num(aqi * 3 + rnd.o3),
       nh3 |-> Undefined,
       source |-> IF isError THEN "Mock-Fallback" ELSE "Mock-CPCB",
       isRealData |-> TRUE,
       origin |-> "synthetic" ]

AQIService_getMockAQIData(p, isError, rnd) ==
  LET cityData == getCityMockData(p)
      baseAQI == cityData.baseAQI + rnd.aqi - 20
      aqi == Max(1, Min(500, baseAQI))
  IN [ latitude |-> p[1], longitude |-> p[2],
       name |-> cityData.name,
       stationType |-> IF isError THEN "Mock-Fallback" ELSE "Mock-CPCB",
       value |-> aqi,
       category |-> getAQICategory(aqi),
       lastUpdated |-> now,
       pm25 |-> Num(aqi * 6 + rnd.pm25),
       pm10 |-> Num(aqi * 12 + rnd.pm10),
       no2 |-> Num(aqi * 4 + rnd.no2),
       so2 |-> Num(aqi * 2 + rnd.so2),
       co |-> Num(aqi + rnd.co),
       o3 |-> Num(aqi * 3 + rnd.o3),
       nh3 |-> Undefined,
       source |-> IF isError THEN "Mock-Fallback" ELSE "Mock-CPCB",
       isRealData |-> FALSE,
       origin |-> "synthetic" ]

\* AQIService.fetchRealTimeAQI: both branches of the try block return
\* getMockAQIData(lat, lng); nothing in it throws, no provider is called.
AQIService_fetchRealTimeAQI(p, rnd) == AQIService_getMockAQIData(p, FALSE, rnd)

(***************************************************************************)
(* The store: DatabaseService over the tables locations and aqi_logs.      *)
(***************************************************************************)
\* The $queryRaw of getLatestAQI: the active locations within the radius
\* that are at the least distance (ORDER BY distance ASC LIMIT 1 returns one
\* of them).  radius is in metres.
\* The location query without its ORDER BY: any active location within
\* the radius.
NearestLocations_Unordered(p, radius) ==
  LET dist(l) == calculateDistance(p, <<l.latitude, l.longitude>>)
  IN {l \in locations : dist(l) <= radius /\ l.isActive}

\* The location query of getLatestAQI: the active locations within the
\* radius at the least distance (LIMIT 1 takes one of them).
NearestLocations(p, radius) ==
  LET dist(l) == calculateDistance(p, <<l.latitude, l.longitude>>)
      within == {l \in locations : dist(l) <= radius /\ l.isActive}
  IN {l \in within : \A m \in within : dist(l) <= dist(m)}

\* findFirst ordering by timestamp ascending.
LatestLogs_Oldest(locationId) ==
  LET mine == {g \in logs : g.locationId = locationId}
      oldest == {g \in mine : \A h \in mine : g.timestamp <= h.timestamp}
  IN { [log |-> g, location |-> l] :
         g \in oldest, l \in {m \in locations : m.id = locationId} }

\* aQILog.findFirst({where: {locationId}, orderBy: {timestamp: 'desc'},
\* include: {location: true}}): the rows of the location with the greatest
\* timestamp, each joined with its location row.
LatestLogs(locationId) ==
  LET mine == {g \in logs : g.locationId = locationId}
      latest == {g \in mine : \A h \in mine : g.timestamp >= h.timestamp}
  IN { [log |-> g, location |-> l] :
         g \in latest, l \in {m \in locations : m.id = locationId} }

\* isDataFresh with < in place of <=.
isDataFresh_Strict(timestamp) == now - timestamp < 60

\* isDataFresh that holds of no row.
isDataFresh_Never(timestamp) == FALSE

\* isDataFresh of routes/aqi.js.
isDataFresh(timestamp) == now - timestamp <= 60

\* The row aQILog.create writes for aqiData under the location row.
LogRow(aqiData, locationId) ==
  [ id |-> nextId,
    locationId |-> locationId,
    aqi |-> aqiData.value,
    category |-> aqiData.category,
    pm25 |-> aqiData.pm25,
    pm10 |-> aqiData.pm10,
    no2 |-> aqiData.no2,
    so2 |-> aqiData.so2,
    co |-> aqiData.co,
    o3 |-> aqiData.o3,
    source |-> aqiData.source,
    timestamp |-> aqiData.lastUpdated ]

\* The row location.upsert creates for locationData.
LocationRow(locationData) ==
  [ id |-> nextId,
    latitude |-> locationData.latitude,
    longitude |-> locationData.longitude,
    name |-> locationData.name,
    stationType |-> locationData.stationType,
    isActive |-> TRUE ]

SameKey(l, locationData) ==
  l.latitude = locationData.latitude /\ l.longitude = locationData.longitude

\* The table without its unique constraint.
UniqueViolation_Off(row) == FALSE

\* @@unique([latitude, longitude]): an insert of a row whose key is present
\* is refused.
UniqueViolation(row) == \E l \in locations : SameKey(l, row)


(***************************************************************************)
(* GET /api/aqi (routes/aqi.js), one step per database round trip.  The    *)
(* code between two awaits runs with the round trip that precedes it.      *)
(***************************************************************************)
\* The search radius of the requests, in metres (the default, 10 km).
Radii == {10000}

\* Minutes the clock advances by in one step.
TickSteps == {60, 61}

Requests == 1..NumRequests

\* AQI_CATEGORIES of utils/constants.js, in the order of the source.
AQI_CATEGORIES == <<
  [key |-> "GOOD", min |-> 0, max |-> 50, label |-> "Good"],
  [key |-> "SATISFACTORY", min |-> 51, max |-> 100, label |-> "Satisfactory"],
  [key |-> "MODERATE", min |-> 101, max |-> 200, label |-> "Moderate"],
  [key |-> "POOR", min |-> 201, max |-> 300, label |-> "Poor"],
  [key |-> "VERY_POOR", min |-> 301, max |-> 400, label |-> "Very Poor"],
  [key |-> "SEVERE", min |-> 401, max |-> 500, label |-> "Severe"] >>

\* categorizeAQI of utils/helpers.js: the first category whose range holds
\* the value, SEVERE when none does.
RECURSIVE CategorizeFrom(_, _)
CategorizeFrom(aqi, i) ==
  IF i > Len(AQI_CATEGORIES) THEN [category |-> "SEVERE", label |-> "Severe"]
  ELSE IF aqi >= AQI_CATEGORIES[i].min /\ aqi <= AQI_CATEGORIES[i].max
    THEN [category |-> AQI_CATEGORIES[i].key, label |-> AQI_CATEGORIES[i].label]
  ELSE CategorizeFrom(aqi, i + 1)

categorizeAQI(aqi) == CategorizeFrom(aqi, 1)

\* formatCachedAQIResponse and the meta of the cache branch.
formatCachedAQIResponse(cachedData) ==
  [ name |-> cachedData.location.name,
    latitude |-> cachedData.location.latitude,
    longitude |-> cachedData.location.longitude,
    stationType |-> cachedData.location.stationType,
    value |-> cachedData.log.aqi,
    category |-> categorizeAQI(cachedData.log.aqi).category,
    lastUpdated |-> cachedData.log.timestamp,
    pm25 |-> cachedData.log.pm25,
    pm10 |-> cachedData.log.pm10,
    no2 |-> cachedData.log.no2,
    so2 |-> cachedData.log.so2,
    co |-> cachedData.log.co,
    o3 |-> cachedData.log.o3,
    source |-> cachedData.log.source,
    meta |-> [source |-> "cache", dataAge |-> now - cachedData.log.timestamp] ]

\* The response of the external branch: freshData with the category of
\* categorizeAQI spread over freshData.aqi, meta.isRealData = isRealData || false.
formatFreshResponse(freshData) ==
  [ name |-> freshData.name,
    latitude |-> freshData.latitude,
    longitude |-> freshData.longitude,
    stationType |-> freshData.stationType,
    value |-> freshData.value,
    category |-> categorizeAQI(freshData.value).category,
    lastUpdated |-> freshData.lastUpdated,
    pm25 |-> freshData.pm25,
    pm10 |-> freshData.pm10,
    no2 |-> freshData.no2,
    so2 |-> freshData.so2,
    co |-> freshData.co,
    o3 |-> freshData.o3,
    source |-> freshData.source,
    meta |-> [source |-> "external_api", isRealData |-> freshData.isRealData] ]

\* A request.  location and cachedData are what the two queries of
\* getLatestAQI returned; snapId, lookupAt and lookupFailed record when and
\* how the lookup ran (they are not variables of the code).
IdleReq ==
  [ pc |-> "idle", coord |-> Mumbai, radius |-> 0,
    location |-> Undefined, cachedData |-> Undefined, freshData |-> Undefined,
    found |-> 0, locationId |-> 0, response |-> Undefined,
    snapId |-> 0, lookupAt |-> 0, lookupFailed |-> FALSE, saved |-> FALSE ]


\* The handler has answered: its locals are gone.  What stays is what the
\* request looked up, fetched, saved and answered.
Answered(q, response) ==
  [q EXCEPT !.pc = "done", !.response = response, !.location = Undefined,
            !.found = 0, !.locationId = 0, !.snapId = 0, !.lookupAt = 0]

\* Request r arrives with valid coordinates and radius; the handler issues
\* the location query of getLatestAQI.  Requests are numbered by arrival.
GetAQI(r, p, radius) ==
  /\ req[r].pc = "idle"
  /\ IF r = 1 THEN TRUE ELSE req[r - 1].pc # "idle"
  /\ req' = [req EXCEPT ![r] = [IdleReq EXCEPT !.pc = "queryRaw", !.coord = p,
                                               !.radius = radius, !.snapId = nextId]]
  /\ UNCHANGED <<locations, logs, nextId, probe, probes, ticks, faults, now>>

\* The handler after getLatestAQI gave no fresh reading: fetchRealTimeAQI of
\* the route's service returns, saveAQIData starts.
Miss(r, cachedData, failed) ==
  \E rnd \in RandomDraws :
    req' = [req EXCEPT ![r] =
              [@ EXCEPT !.pc = "upsertFind", !.cachedData = cachedData,
                        !.freshData = AQIService_fetchRealTimeAQI(req[r].coord, rnd),
                        !.lookupAt = now, !.lookupFailed = failed]]

\* The $queryRaw of getLatestAQI runs.  No row, or an error (caught,
\* getLatestAQI returns null), is a miss.
QueryRaw(r) ==
  /\ req[r].pc = "queryRaw"
  /\ \/ /\ faults < MaxFaults
        /\ faults' = faults + 1
        /\ Miss(r, Undefined, TRUE)
     \/ /\ NearestLocations(req[r].coord, req[r].radius) = {}
        /\ Miss(r, Undefined, FALSE)
        /\ UNCHANGED faults
     \/ /\ \E l \in NearestLocations(req[r].coord, req[r].radius) :
             req' = [req EXCEPT ![r] = [@ EXCEPT !.pc = "findFirst", !.location = l]]
        /\ UNCHANGED faults
  /\ UNCHANGED <<locations, logs, nextId, probe, probes, ticks, now>>

\* aQILog.findFirst runs; the handler tests isDataFresh and either answers
\* from the stored row or goes on to the service.
FindFirst(r) ==
  /\ req[r].pc = "findFirst"
  /\ \/ /\ faults < MaxFaults
        /\ faults' = faults + 1
        /\ Miss(r, Undefined, TRUE)
     \/ /\ LatestLogs(req[r].location.id) = {}
        /\ Miss(r, Undefined, FALSE)
        /\ UNCHANGED faults
     \/ /\ \E cachedData \in LatestLogs(req[r].location.id) :
             IF isDataFresh(cachedData.log.timestamp)
               THEN req' = [req EXCEPT ![r] =
                              Answered([@ EXCEPT !.cachedData = cachedData],
                                       formatCachedAQIResponse(cachedData))]
               ELSE Miss(r, cachedData, FALSE)
        /\ UNCHANGED faults
  /\ UNCHANGED <<locations, logs, nextId, probe, probes, ticks, now>>

\* The answer of the handler's outer catch: status 500, success false.
InternalError == [status |-> 500, success |-> FALSE]

\* The try around saveAQIData without its catch: the error reaches the
\* handler's outer catch.
AfterSave_Rethrow(freshData, threw) ==
  IF threw THEN InternalError ELSE formatFreshResponse(freshData)

\* The handler after 'try { await dbService.saveAQIData(freshData) } catch':
\* the error is logged and dropped, the response is built from freshData.
AfterSave(freshData, threw) == formatFreshResponse(freshData)

\* saveAQIData threw (the route logs it and goes on), or finished: the
\* handler answers with the fresh reading.
Respond(r, saved) ==
  req' = [req EXCEPT ![r] =
            Answered([@ EXCEPT !.saved = saved],
                     AfterSave(req[r].freshData, ~saved))]

\* location.upsert, first half: look the key up.
UpsertFind(r) ==
  /\ req[r].pc = "upsertFind"
  /\ \/ /\ faults < MaxFaults
        /\ faults' = faults + 1
        /\ Respond(r, FALSE)
     \/ /\ UNCHANGED faults
        /\ LET rows == {l \in locations : SameKey(l, req[r].freshData)}
           IN IF rows = {}
                THEN req' = [req EXCEPT ![r] = [@ EXCEPT !.pc = "upsertWrite", !.found = 0]]
                ELSE \E l \in rows :
                       req' = [req EXCEPT ![r] =
                                 [@ EXCEPT !.pc = "upsertWrite", !.found = l.id]]
  /\ UNCHANGED <<locations, logs, nextId, probe, probes, ticks, now>>

\* The update branch of location.upsert on the row with this id.
UpdateLocation(id, locationData) ==
  { IF l.id = id
      THEN [l EXCEPT !.name = locationData.name,
                     !.stationType = locationData.stationType]
      ELSE l : l \in locations }

\* location.upsert, second half: update the row found, or insert.  An
\* insert that meets a row written meanwhile either updates it (a single
\* INSERT .. ON CONFLICT statement) or is refused by the unique constraint
\* (upsertLocation throws, so saveAQIData throws).
UpsertWrite(r) ==
  /\ req[r].pc = "upsertWrite"
  /\ \/ /\ faults < MaxFaults
        /\ faults' = faults + 1
        /\ Respond(r, FALSE)
        /\ UNCHANGED <<locations, nextId>>
     \/ /\ req[r].found # 0
        /\ locations' = UpdateLocation(req[r].found, req[r].freshData)
        /\ req' = [req EXCEPT ![r] =
                     [@ EXCEPT !.pc = "create", !.locationId = req[r].found]]
        /\ UNCHANGED <<faults, nextId>>
     \/ /\ req[r].found = 0
        /\ UniqueViolation(LocationRow(req[r].freshData))
        /\ \/ /\ Respond(r, FALSE)
              /\ UNCHANGED locations
           \/ \E l \in {m \in locations : SameKey(m, req[r].freshData)} :
                /\ locations' = UpdateLocation(l.id, req[r].freshData)
                /\ req' = [req EXCEPT ![r] =
                             [@ EXCEPT !.pc = "create", !.locationId = l.id]]
        /\ UNCHANGED <<faults, nextId>>
     \/ /\ req[r].found = 0
        /\ ~UniqueViolation(LocationRow(req[r].freshData))
        /\ locations' = locations \cup {LocationRow(req[r].freshData)}
        /\ nextId' = nextId + 1
        /\ req' = [req EXCEPT ![r] = [@ EXCEPT !.pc = "create", !.locationId = nextId]]
        /\ UNCHANGED faults
  /\ UNCHANGED <<logs, probe, probes, ticks, now>>

\* aQILog.create, then the response.
CreateLog(r) ==
  /\ req[r].pc = "create"
  /\ \/ /\ faults < MaxFaults
        /\ faults' = faults + 1
        /\ Respond(r, FALSE)
        /\ UNCHANGED <<logs, nextId>>
     \/ /\ logs' = logs \cup {LogRow(req[r].freshData, req[r].locationId)}
        /\ nextId' = nextId + 1
        /\ Respond(r, TRUE)
        /\ UNCHANGED faults
  /\ UNCHANGED <<locations, probe, probes, ticks, now>>

(***************************************************************************)
(* GET /api/aqi/nearest (routes/aqi.js): getLatestAQI within 50 km, no     *)
(* freshness test, nothing saved.                                          *)
(***************************************************************************)
NearestRadius == 50000

IdleProbe ==
  [pc |-> "idle", coord |-> Mumbai, location |-> Undefined,
   cachedData |-> Undefined, status |-> 0]

GetNearest(p) ==
  /\ probe.pc \in {"idle", "done"}
  /\ probes < MaxProbes
  /\ probes' = probes + 1
  /\ probe' = [IdleProbe EXCEPT !.pc = "queryRaw", !.coord = p]
  /\ UNCHANGED <<locations, logs, nextId, req, ticks, faults, now>>

\* getLatestAQI returned null: 404.
NotFound == probe' = [probe EXCEPT !.pc = "done", !.status = 404, !.location = Undefined]

NearestQueryRaw ==
  /\ probe.pc = "queryRaw"
  /\ \/ /\ faults < MaxFaults
        /\ faults' = faults + 1
        /\ NotFound
     \/ /\ NearestLocations(probe.coord, NearestRadius) = {}
        /\ NotFound
        /\ UNCHANGED faults
     \/ /\ \E l \in NearestLocations(probe.coord, NearestRadius) :
             probe' = [probe EXCEPT !.pc = "findFirst", !.location = l]
        /\ UNCHANGED faults
  /\ UNCHANGED <<locations, logs, nextId, req, probes, ticks, now>>

NearestFindFirst ==
  /\ probe.pc = "findFirst"
  /\ \/ /\ faults < MaxFaults
        /\ faults' = faults + 1
        /\ NotFound
     \/ /\ LatestLogs(probe.location.id) = {}
        /\ NotFound
        /\ UNCHANGED faults
     \/ /\ \E cachedData \in LatestLogs(probe.location.id) :
             probe' = [probe EXCEPT !.pc = "done", !.status = 200,
                                    !.location = Undefined,
                                    !.cachedData = cachedData]
        /\ UNCHANGED faults
  /\ UNCHANGED <<locations, logs, nextId, req, probes, ticks, now>>

Tick(d) ==
  /\ ticks < MaxTicks
  /\ ticks' = ticks + 1
  /\ now' = now + d
  /\ UNCHANGED <<locations, logs, nextId, req, probe, probes, faults>>

(***************************************************************************)
(* Query parameters and the validation at the head of each handler.       *)
(***************************************************************************)
VARIABLES
  entry,              \* the request at an entry point, from arrival to answer
  conv                \* an evaluation of the converter and the categorisers

pureVars == <<entry, conv>>

\* A query parameter: absent, or the text given.  Text is a sequence of
\* characters.
Missing == [given |-> FALSE, text |-> <<>>]

Param(text) == [given |-> TRUE, text |-> text]

\* !x of a query parameter: undefined and the empty string are falsy.
Falsy(x) == ~x.given \/ x.text = <<>>

Digits == <<"0", "1", "2", "3", "4", "5", "6", "7", "8", "9">>

IsDigit(c) == \E i \in 1..Len(Digits) : Digits[i] = c

DigitValue(c) == (CHOOSE i \in 1..Len(Digits) : Digits[i] = c) - 1

\* The digits s starts with.
RECURSIVE DigitPrefix(_)
DigitPrefix(s) ==
  IF s = <<>> \/ ~IsDigit(Head(s)) THEN <<>>
  ELSE <<Head(s)>> \o DigitPrefix(Tail(s))

\* The number a run of digits denotes, read left to right.
RECURSIVE DecimalValue(_, _)
DecimalValue(d, acc) ==
  IF d = <<>> THEN acc
  ELSE DecimalValue(Tail(d), 10 * acc + DigitValue(Head(d)))

\* The first n digits of d, padded with zeros, as a number.
RECURSIVE FractionValue(_, _, _)
FractionValue(d, n, acc) ==
  IF n = 0 THEN acc
  ELSE IF d = <<>> THEN FractionValue(d, n - 1, 10 * acc)
  ELSE FractionValue(Tail(d), n - 1, 10 * acc + DigitValue(Head(d)))

\* parseFloat of a query parameter, in 1e-4: an optional "-", the longest
\* run of digits at the start of the text, an optional "." and the digits
\* after it; whatever follows is ignored; NaN when no digit is found there,
\* or there is no text.  (The texts modelled have no blanks, no "+", no
\* exponent and at most four decimals.)
parseFloat(x) ==
  IF ~x.given \/ x.text = <<>> THEN NaN
  ELSE LET neg == Head(x.text) = "-"
           body == IF neg THEN Tail(x.text) ELSE x.text
           int == DigitPrefix(body)
           rest == SubSeq(body, Len(int) + 1, Len(body))
           frac == IF rest # <<>> /\ Head(rest) = "." THEN DigitPrefix(Tail(rest))
                   ELSE <<>>
       IN IF int = <<>> /\ frac = <<>> THEN NaN
          ELSE Num((IF neg THEN -1 ELSE 1)
                     * (10000 * DecimalValue(int, 0) + FractionValue(frac, 4, 0)))

isNaN(x) == x = NaN

\* The texts of lat and lng the requests carry.
QueryTexts ==
  { <<"a">>,
    <<"9", "5">>,
    <<"-", "9", "1">>,
    <<"1", "8", "1">>,
    <<"9", "0">>,
    <<"1", "9", "a">>,
    <<"7", "2", ".", "8", "7", "7", "7">> }

QueryParams == {Missing} \cup {Param(t) : t \in QueryTexts}

\* The texts of radius the requests carry (absent: the default, 10).
RadiusParams == {Missing, Param(<<"a">>), Param(<<"0">>), Param(<<"181">>)}

\* The city names the requests carry.
CityParams == {Missing, Param(<<"P", "u", "n", "e">>), Param(<<"O", "z">>)}

\* What a validation yields: status 0 when it passed, with the coordinates
\* the handler goes on with.
Rejected(status) == [status |-> status, latitude |-> NaN, longitude |-> NaN]

Accepted(latitude, longitude) ==
  [status |-> 0, latitude |-> latitude, longitude |-> longitude]

InvalidLatitude(latitude) ==
  isNaN(latitude) \/ latitude.val < -900000 \/ latitude.val > 900000

InvalidLongitude(longitude) ==
  isNaN(longitude) \/ longitude.val < -1800000 \/ longitude.val > 1800000

\* GET /api/aqi, from the top of the handler to the lookup.
ValidateAqi(lat, lng, radius) ==
  IF Falsy(lat) \/ Falsy(lng) THEN Rejected(400)
  ELSE LET latitude == parseFloat(lat)
           longitude == parseFloat(lng)
           searchRadius == IF radius.given THEN parseFloat(radius) ELSE Num(100000)
       IN IF InvalidLatitude(latitude) THEN Rejected(400)
          ELSE IF InvalidLongitude(longitude) THEN Rejected(400)
          ELSE IF isNaN(searchRadius) \/ searchRadius.val <= 0
                    \/ searchRadius.val > 1000000 THEN Rejected(400)
          ELSE Accepted(latitude, longitude)

\* findCityCoordinates on the names modelled: the city of the table whose
\* name the text is, null when the text is within no name and no name
\* within it.
findCityCoordinates(text) ==
  IF text = <<"P", "u", "n", "e">> THEN Accepted(Num(Pune[1]), Num(Pune[2]))
  ELSE Rejected(404)

\* GET /api/forecast, from the top of the handler to fetchForecastData
\* (hours left at its default).
ValidateForecast(lat, lng, city) ==
  IF Falsy(lat) /\ Falsy(lng) /\ Falsy(city) THEN Rejected(400)
  ELSE IF ~Falsy(city) THEN findCityCoordinates(city.text)
  ELSE LET latitude == parseFloat(lat)
           longitude == parseFloat(lng)
       IN IF InvalidLatitude(latitude) THEN Rejected(400)
          ELSE IF InvalidLongitude(longitude) THEN Rejected(400)
          ELSE Accepted(latitude, longitude)

\* GET /api/forecast/daily, from the top of the handler to
\* fetchForecastData (days left at its default).
ValidateDaily(lat, lng, city) ==
  IF Falsy(lat) /\ Falsy(lng) /\ Falsy(city) THEN Rejected(400)
  ELSE IF ~Falsy(city) THEN findCityCoordinates(city.text)
  ELSE Accepted(parseFloat(lat), parseFloat(lng))

\* GET /api/ai-forecast, from the top of the handler to fetchRealTimeAQI
\* (hours left at its default).
ValidateAiForecast(lat, lng) ==
  IF Falsy(lat) /\ Falsy(lng) THEN Rejected(400)
  ELSE LET latitude == parseFloat(lat)
           longitude == parseFloat(lng)
       IN IF isNaN(latitude) \/ isNaN(longitude) THEN Rejected(400)
          ELSE Accepted(latitude, longitude)

(***************************************************************************)
(* The entry points: a request arrives with its query texts, the handler   *)
(* validates them and, when they pass, goes on to the store and to the     *)
(* service.  The calls each request makes are counted.                     *)
(***************************************************************************)
\* The forecast cache window of the integration guide, and the steps of
\* time between two requests, in minutes.
ForecastWindow == 180

ForecastSteps == {180, 181}

NoForecast == [set |-> FALSE, latitude |-> NaN, longitude |-> NaN, at |-> 0]

IdleEntry ==
  [pc |-> "idle", route |-> "none",
   lat |-> Missing, lng |-> Missing, radius |-> Missing, city |-> Missing,
   latitude |-> NaN, longitude |-> NaN, status |-> 0,
   lookups |-> 0, currentFetches |-> 0, forecastFetches |-> 0,
   n |-> 0, prev |-> NoForecast, repeats |-> FALSE]

\* A request reaches a handler, which runs up to its first awaited call.
Arrive(route, lat, lng, radius, city, v) ==
  /\ entry.pc \in {"idle", "done"}
  /\ entry.n < MaxEntries
  /\ entry' = [entry EXCEPT
        !.pc = IF v.status = 0 THEN "accepted" ELSE "done",
        !.route = route,
        !.lat = lat, !.lng = lng, !.radius = radius, !.city = city,
        !.latitude = v.latitude, !.longitude = v.longitude,
        !.status = v.status,
        !.lookups = 0, !.currentFetches = 0, !.forecastFetches = 0,
        !.n = entry.n + 1,
        !.repeats = FALSE]
  /\ UNCHANGED <<svcVars, storeVars, now, conv>>

AqiRequest(lat, lng, radius) ==
  Arrive("aqi", lat, lng, radius, Missing, ValidateAqi(lat, lng, radius))

ForecastRequest(lat, lng, city) ==
  Arrive("forecast", lat, lng, Missing, city, ValidateForecast(lat, lng, city))

DailyRequest(lat, lng, city) ==
  Arrive("daily", lat, lng, Missing, city, ValidateDaily(lat, lng, city))

AiForecastRequest(lat, lng) ==
  Arrive("aiForecast", lat, lng, Missing, Missing, ValidateAiForecast(lat, lng))

\* GET /api/aqi past its validation: the lookup, and on a miss the fetch.
AqiServe(hit) ==
  /\ entry.pc = "accepted"
  /\ entry.route = "aqi"
  /\ entry' = [entry EXCEPT !.pc = "done", !.status = 200,
                            !.lookups = 1,
                            !.currentFetches = IF hit THEN 0 ELSE 1]
  /\ UNCHANGED <<svcVars, storeVars, now, conv>>

\* GET /api/forecast past its validation: fetchForecastData, then the
\* response; saveForecastToDatabase writes a line to the console.
ForecastServe ==
  /\ entry.pc = "accepted"
  /\ entry.route = "forecast"
  /\ entry' = [entry EXCEPT
        !.pc = "done", !.status = 200,
        !.forecastFetches = 1,
        !.repeats = /\ entry.prev.set
                    /\ entry.prev.latitude = entry.latitude
                    /\ entry.prev.longitude = entry.longitude
                    /\ now - entry.prev.at <= ForecastWindow,
        !.prev = [set |-> TRUE, latitude |-> entry.latitude,
                  longitude |-> entry.longitude, at |-> now]]
  /\ UNCHANGED <<svcVars, storeVars, now, conv>>

\* GET /api/forecast/daily past its parameters: fetchForecastData.
DailyServe ==
  /\ entry.pc = "accepted"
  /\ entry.route = "daily"
  /\ entry' = [entry EXCEPT !.pc = "done", !.status = 200,
                            !.forecastFetches = 1]
  /\ UNCHANGED <<svcVars, storeVars, now, conv>>

\* GET /api/ai-forecast past its validation: fetchRealTimeAQI, the
\* history of the store, fetchForecastData.
AiForecastServe ==
  /\ entry.pc = "accepted"
  /\ entry.route = "aiForecast"
  /\ entry' = [entry EXCEPT !.pc = "done", !.status = 200,
                            !.lookups = 1,
                            !.currentFetches = 1,
                            !.forecastFetches = 1]
  /\ UNCHANGED <<svcVars, storeVars, now, conv>>

\* Time passes between two requests.
Elapse(d) ==
  /\ entry.pc = "done"
  /\ ticks < MaxTicks
  /\ now' = now + d
  /\ ticks' = ticks + 1
  /\ UNCHANGED <<useRealData, openWeatherApiKey, iqAirApiKey, svc, owmCalls,
                 iqCalls, fcCalls, calls, owmUp, locations, logs, nextId,
                 req, probe, probes, faults, entry, conv>>

(***************************************************************************)
(* calculateForecastSummary of routes/forecast.js, on a series of points   *)
(* [predictedAqi, category].                                               *)
(***************************************************************************)
RECURSIVE Sum(_)
Sum(values) == IF values = <<>> THEN 0 ELSE Head(values) + Sum(Tail(values))

\* values.reduce((sum, val) => sum + val, 0) / values.length: NaN (0 / 0)
\* on no values, else the rational <<sum, length>>.
Average(values) ==
  IF values = <<>> THEN NaN ELSE Num(<<Sum(values), Len(values)>>)

\* lastAvg - firstAvg: NaN when either is NaN.
Difference(lastAvg, firstAvg) ==
  IF lastAvg = NaN \/ firstAvg = NaN THEN NaN
  ELSE Num(<<lastAvg.val[1] * firstAvg.val[2] - firstAvg.val[1] * lastAvg.val[2],
             lastAvg.val[2] * firstAvg.val[2]>>)

\* aqiValues.slice(-k): the last k values, and for k = 0 (slice(-0) is
\* slice(0)) all of them.
LastSlice(values, k) ==
  IF k = 0 THEN values ELSE SubSeq(values, Len(values) - k + 1, Len(values))

\* The keys of categoryCount, in the order of their first occurrence.
RECURSIVE KeysOf(_, _)
KeysOf(categories, seen) ==
  IF categories = <<>> THEN seen
  ELSE IF \E i \in 1..Len(seen) : seen[i] = Head(categories)
    THEN KeysOf(Tail(categories), seen)
  ELSE KeysOf(Tail(categories), Append(seen, Head(categories)))

CountOf(categories, cat) ==
  Cardinality({i \in 1..Len(categories) : categories[i] = cat})

\* Object.keys(categoryCount).reduce((a, b) => count[a] > count[b] ? a : b).
RECURSIVE ReduceKeys(_, _, _)
ReduceKeys(categories, a, keys) ==
  IF keys = <<>> THEN a
  ELSE ReduceKeys(categories,
                  IF CountOf(categories, a) > CountOf(categories, Head(keys))
                    THEN a ELSE Head(keys),
                  Tail(keys))

RECURSIVE SeqMax(_)
SeqMax(values) ==
  IF Len(values) = 1 THEN values[1] ELSE Max(Head(values), SeqMax(Tail(values)))

RECURSIVE SeqMin(_)
SeqMin(values) ==
  IF Len(values) = 1 THEN values[1] ELSE Min(Head(values), SeqMin(Tail(values)))

NoSummary ==
  [avgAqi |-> 0, maxAqi |-> 0, minAqi |-> 0, trend |-> "", trendChange |-> NaN,
   mostCommonCategory |-> ""]

\* calculateForecastSummary on a non-empty series.
calculateForecastSummary(forecasts) ==
  LET predicted == [i \in 1..Len(forecasts) |-> forecasts[i].predictedAqi]
      categories == [i \in 1..Len(forecasts) |-> forecasts[i].category]
      k == Len(predicted) \div 4
      firstAvg == Average(SubSeq(predicted, 1, k))
      lastAvg == Average(LastSlice(predicted, k))
      diff == Difference(lastAvg, firstAvg)
      trend == IF diff = NaN THEN "stable"
               ELSE IF diff.val[1] > 10 * diff.val[2] THEN "worsening"
               ELSE IF diff.val[1] < -10 * diff.val[2] THEN "improving"
               ELSE "stable"
      keys == KeysOf(categories, <<>>)
  IN [ avgAqi |-> MathRound(Sum(predicted), Len(predicted)),
       maxAqi |-> SeqMax(predicted),
       minAqi |-> SeqMin(predicted),
       trend |-> trend,
       trendChange |-> IF diff = NaN THEN NaN
                       ELSE Num(MathRound(diff.val[1], diff.val[2])),
       mostCommonCategory |-> ReduceKeys(categories, Head(keys), Tail(keys)) ]

(***************************************************************************)
(* The converter and the categorisers, applied to inputs drawn at the      *)
(* start: conv holds the arguments of one call and, once the call is made, *)
(* what it returned.                                                       *)
(***************************************************************************)
TableNames == {"pm25", "pm10", "no2"}

BreakpointsOf(table) ==
  IF table = "pm25" THEN PM25Breakpoints
  ELSE IF table = "pm10" THEN PM10Breakpoints
  ELSE NO2Breakpoints

\* The segment bounds of the three tables, in ug/m3.
SegmentBounds == {0, 30, 40, 50, 60, 80, 90, 100, 120, 180, 250, 280, 350,
                  400, 430, 500}

\* Concentrations in 1/100 ug/m3: every segment bound, the values next to
\* it on either side, and values within segments.
Concentrations ==
  {100 * b + d : b \in SegmentBounds, d \in {-1, 0, 1}}
    \cup {-500, 1500, 3500, 4500, 7500, 60000}

\* The arguments convertToIndianAQI is applied to.
ConvertArgs ==
  {Undefined, Null, NaN, Num(-1), Num(0), Num(20), Num(3000), Num(3001),
   Num(3500), Num(4000), Num(50000), Num(50001)}

\* A concentration of 2000 ug/m3.
Extreme == Num(200000)

\* The arguments it is given for so2, co and o3: none, or one of them.
OtherArgs ==
  {<<Undefined, Undefined, Undefined>>,
   <<Extreme, Undefined, Undefined>>,
   <<Undefined, Extreme, Undefined>>,
   <<Undefined, Undefined, Extreme>>}

IdleConv ==
  [pc |-> "idle", fn |-> "none",
   pm25 |-> Undefined, pm10 |-> Undefined, no2 |-> Undefined,
   so2 |-> Undefined, co |-> Undefined, o3 |-> Undefined,
   table |-> "pm25", c1 |-> Num(0), c2 |-> Num(0), aqi |-> 0,
   index |-> 0, sub1 |-> <<0, 1>>, sub2 |-> <<0, 1>>,
   category |-> "", label |-> "", name |-> "", pushed |-> <<>>,
   series |-> <<>>, summary |-> NoSummary,
   usA |-> 0, usB |-> 0, indianA |-> 0, indianB |-> 0]

\* The US AQI values (aqius of IQAir, 0..500), and the pairs a <= b of
\* them that are equal or adjacent.
USAQIValues == 0..500

USAQIPairs ==
  {<<a, b>> \in USAQIValues \X USAQIValues : b = a \/ b = a + 1}

\* The index values of the points summarised, and the series of 1 to
\* MaxPoints points.
PointValues == {40, 50, 61}

ForecastSeries ==
  UNION {[1..n -> {[predictedAqi |-> v, category |-> getAQICategory(v)] :
                     v \in PointValues}] : n \in 1..MaxPoints}

\* The calls made, each with its arguments.
ConvInputs ==
  {[IdleConv EXCEPT !.pc = "input", !.fn = "convertToIndianAQI",
                    !.pm25 = a, !.pm10 = b, !.no2 = c,
                    !.so2 = d[1], !.co = d[2], !.o3 = d[3]] :
     a \in ConvertArgs, b \in ConvertArgs, c \in ConvertArgs,
     d \in OtherArgs}
  \cup
  {[IdleConv EXCEPT !.pc = "input", !.fn = "calculateSubIndex",
                    !.table = t, !.c1 = a, !.c2 = Num(b)] :
     t \in TableNames,
     a \in {Num(c) : c \in Concentrations} \cup {Null, NaN},
     b \in Concentrations}
  \cup
  {[IdleConv EXCEPT !.pc = "input", !.fn = "categorize", !.aqi = v] :
     v \in 0..MaxIndex}
  \cup
  {[IdleConv EXCEPT !.pc = "input", !.fn = "calculateForecastSummary",
                    !.series = f] : f \in ForecastSeries}
  \cup
  {[IdleConv EXCEPT !.pc = "input", !.fn = "convertUSAQIToIndian",
                    !.usA = p[1], !.usB = p[2]] : p \in USAQIPairs}

\* convertToIndianAQI is applied.
Convert ==
  /\ conv.pc = "input"
  /\ conv.fn = "convertToIndianAQI"
  /\ conv' = [conv EXCEPT
        !.pc = "done",
        !.pushed = aqiValues(conv.pm25, conv.pm10, conv.no2),
        !.index = convertToIndianAQI(conv.pm25, conv.pm10, conv.no2,
                                     conv.so2, conv.co, conv.o3)]
  /\ UNCHANGED <<svcVars, storeVars, now, entry>>

\* calculateSubIndex is applied to each of two concentrations.
SubIndex ==
  /\ conv.pc = "input"
  /\ conv.fn = "calculateSubIndex"
  /\ conv' = [conv EXCEPT
        !.pc = "done",
        !.sub1 = calculateSubIndex(conv.c1, BreakpointsOf(conv.table)),
        !.sub2 = calculateSubIndex(conv.c2, BreakpointsOf(conv.table))]
  /\ UNCHANGED <<svcVars, storeVars, now, entry>>

\* convertUSAQIToIndian is applied to each value of a pair.
ConvertUS ==
  /\ conv.pc = "input"
  /\ conv.fn = "convertUSAQIToIndian"
  /\ conv' = [conv EXCEPT !.pc = "done",
                          !.indianA = convertUSAQIToIndian(conv.usA),
                          !.indianB = convertUSAQIToIndian(conv.usB)]
  /\ UNCHANGED <<svcVars, storeVars, now, entry>>

\* calculateForecastSummary is applied.
Summarize ==
  /\ conv.pc = "input"
  /\ conv.fn = "calculateForecastSummary"
  /\ conv' = [conv EXCEPT !.pc = "done",
                          !.summary = calculateForecastSummary(conv.series)]
  /\ UNCHANGED <<svcVars, storeVars, now, entry>>

\* categorizeAQI and getAQICategory are applied to one index value.
Categorize ==
  /\ conv.pc = "input"
  /\ conv.fn = "categorize"
  /\ conv' = [conv EXCEPT
        !.pc = "done",
        !.category = categorizeAQI(conv.aqi).category,
        !.label = categorizeAQI(conv.aqi).label,
        !.name = getAQICategory(conv.aqi)]
  /\ UNCHANGED <<svcVars, storeVars, now, entry>>

(***************************************************************************)
(* Specifications.                                                         *)
(***************************************************************************)
vars == <<useRealData, openWeatherApiKey, iqAirApiKey, svc, owmCalls, iqCalls,
          fcCalls, calls, owmUp, now, locations, logs, nextId, req, probe,
          probes, ticks, faults, entry, conv>>

InitStore ==
  /\ now = 0
  /\ locations = {}
  /\ logs = {}
  /\ nextId = 1
  /\ req = [r \in Requests |-> IdleReq]
  /\ probe = IdleProbe
  /\ probes = 0
  /\ ticks = 0
  /\ faults = 0

\* No request at an entry point, no call of the converter.
InitPure ==
  /\ entry = IdleEntry
  /\ conv = IdleConv

InitService ==
  /\ svc = IdleSvc
  /\ owmCalls = 0
  /\ iqCalls = 0
  /\ fcCalls = 0
  /\ calls = 0

\* The server as deployed for real data: USE_REAL_DATA=true, both keys set,
\* OpenWeatherMap up.
Init ==
  /\ useRealData = TRUE
  /\ openWeatherApiKey = "key"
  /\ iqAirApiKey = "key"
  /\ owmUp = TRUE
  /\ InitService
  /\ InitStore
  /\ InitPure

Next ==
  \/ /\ \E r \in Requests, p \in Coordinates, radius \in Radii : GetAQI(r, p, radius)
     /\ UNCHANGED <<svcVars, pureVars>>
  \/ /\ \E r \in Requests : QueryRaw(r)
     /\ UNCHANGED <<svcVars, pureVars>>
  \/ /\ \E r \in Requests : FindFirst(r)
     /\ UNCHANGED <<svcVars, pureVars>>
  \/ /\ \E r \in Requests : UpsertFind(r)
     /\ UNCHANGED <<svcVars, pureVars>>
  \/ /\ \E r \in Requests : UpsertWrite(r)
     /\ UNCHANGED <<svcVars, pureVars>>
  \/ /\ \E r \in Requests : CreateLog(r)
     /\ UNCHANGED <<svcVars, pureVars>>
  \/ /\ \E p \in Coordinates : GetNearest(p)
     /\ UNCHANGED <<svcVars, pureVars>>
  \/ /\ NearestQueryRaw
     /\ UNCHANGED <<svcVars, pureVars>>
  \/ /\ NearestFindFirst
     /\ UNCHANGED <<svcVars, pureVars>>
  \/ /\ \E d \in TickSteps : Tick(d)
     /\ UNCHANGED <<svcVars, pureVars>>

Spec == Init /\ [][Next]_vars

\* The service alone, under every configuration of the environment.
InitSvc ==
  /\ useRealData \in BOOLEAN
  /\ openWeatherApiKey \in KeyStates
  /\ iqAirApiKey \in KeyStates
  /\ owmUp \in BOOLEAN
  /\ InitService
  /\ InitStore
  /\ InitPure

NextSvc ==
  \/ /\ \E p \in Coordinates : fetchRealTimeAQI(p)
     /\ UNCHANGED <<storeVars, pureVars>>
  \/ /\ \E resp \in OwmResponses : OwmReturns(resp)
     /\ UNCHANGED <<storeVars, pureVars>>
  \/ /\ \E resp \in IqResponses : IqAirReturns(resp)
     /\ UNCHANGED <<storeVars, pureVars>>
  \/ /\ \E p \in Coordinates, hours \in 1..MaxHours : fetchForecastData(p, hours)
     /\ UNCHANGED <<storeVars, pureVars>>
  \/ /\ \E resp \in ForecastResponses : ForecastReturns(resp)
     /\ UNCHANGED <<storeVars, pureVars>>
  \/ /\ Return
     /\ UNCHANGED <<storeVars, pureVars>>
  \/ /\ ProviderChange
     /\ UNCHANGED <<storeVars, pureVars>>

SpecSvc == InitSvc /\ [][NextSvc]_vars

\* The service with every provider call settling: axios.get resolves,
\* rejects or reaches its 10 s timeout.
SpecSvcFair ==
  /\ SpecSvc
  /\ WF_vars((\E resp \in OwmResponses : OwmReturns(resp))
               /\ UNCHANGED <<storeVars, pureVars>>)
  /\ WF_vars((\E resp \in IqResponses : IqAirReturns(resp))
               /\ UNCHANGED <<storeVars, pureVars>>)

\* The entry points alone, on the server as deployed for real data.
InitEntry ==
  /\ useRealData = TRUE
  /\ openWeatherApiKey = "key"
  /\ iqAirApiKey = "key"
  /\ owmUp = TRUE
  /\ InitService
  /\ InitStore
  /\ InitPure

NextEntry ==
  \/ \E lat \in QueryParams, lng \in QueryParams, radius \in RadiusParams :
       AqiRequest(lat, lng, radius)
  \/ \E hit \in BOOLEAN : AqiServe(hit)
  \/ \E lat \in QueryParams, lng \in QueryParams, city \in CityParams :
       ForecastRequest(lat, lng, city)
  \/ ForecastServe
  \/ \E lat \in QueryParams, lng \in QueryParams, city \in CityParams :
       DailyRequest(lat, lng, city)
  \/ DailyServe
  \/ \E lat \in QueryParams, lng \in QueryParams : AiForecastRequest(lat, lng)
  \/ AiForecastServe
  \/ \E d \in ForecastSteps : Elapse(d)

SpecEntry == InitEntry /\ [][NextEntry]_vars

\* The converter and the categorisers alone.
InitConv ==
  /\ useRealData = TRUE
  /\ openWeatherApiKey = "key"
  /\ iqAirApiKey = "key"
  /\ owmUp = TRUE
  /\ InitService
  /\ InitStore
  /\ entry = IdleEntry
  /\ conv \in ConvInputs

NextConv ==
  \/ Convert
  \/ SubIndex
  \/ Categorize
  \/ Summarize
  \/ ConvertUS

SpecConv == InitConv /\ [][NextConv]_vars


(***************************************************************************)
(* Properties of RealAQIService, checked under SpecSvc.                    *)
(***************************************************************************)
CurrentDone == svc.pc = "done" /\ svc.op = "current"

PrimaryTried == svc.owmResp.status # "none"

SecondaryTried == svc.iqResp.status # "none"

\* C1: in fetchRealTimeAQI with real data enabled, when OpenWeatherMap fails
\* and IQAir succeeds the reading returned is IQAir's (source "IQAir"); when
\* both fail, or IQAir is not configured, the reading returned is tagged
\* "Mock-Fallback" with isRealData false.  IQAir is tried whenever it is
\* configured and OpenWeatherMap failed.
FallbackOrdering ==
  (CurrentDone /\ PrimaryTried /\ OwmFailed(svc.owmResp)) =>
    /\ IqAirConfigured => SecondaryTried
    /\ (SecondaryTried /\ ~IqFailed(svc.iqResp)) =>
         /\ svc.result.source = "IQAir"
         /\ svc.result.origin = "IQAir"
    /\ (~SecondaryTried \/ IqFailed(svc.iqResp)) =>
         /\ svc.result.source = "Mock-Fallback"
         /\ svc.result.isRealData = FALSE
         /\ svc.result.origin = "synthetic"

\* OpenWeatherMap timed out, IQAir answered, the caller has IQAir's reading.
SecondaryServed ==
  /\ CurrentDone
  /\ svc.owmResp.status = "timeout"
  /\ SecondaryTried
  /\ ~IqFailed(svc.iqResp)
  /\ svc.result.source = "IQAir"

\* C2: whatever the two providers answer (success, network error, timeout,
\* authentication or quota error, a body without the expected parts), an
\* adapter that did not get a usable body returns null, no adapter throws,
\* and fetchRealTimeAQI returns a reading.
FailuresAbsorbed ==
  /\ (PrimaryTried /\ OwmFailed(svc.owmResp)) => svc.owmData = Null
  /\ (SecondaryTried /\ IqFailed(svc.iqResp)) => svc.iqAirData = Null
  /\ svc.owmData # Thrown
  /\ svc.iqAirData # Thrown
  /\ CurrentDone => IsReading(svc.result)

\* Both providers were down (an authentication error, then a network error)
\* and the caller still has a reading.
BothDownStillReading ==
  /\ CurrentDone
  /\ svc.owmResp.status = "auth"
  /\ svc.iqResp.status = "network"
  /\ svc.owmData = Null
  /\ svc.iqAirData = Null
  /\ IsReading(svc.result)

\* C3: when real data is off, or the OpenWeatherMap key is missing or the
\* placeholder, neither fetchRealTimeAQI nor fetchForecastData requests
\* anything from a provider.
OfflineNoProviderCall ==
  Offline => (owmCalls = 0 /\ iqCalls = 0 /\ fcCalls = 0)

\* C5: a synthetic current reading is tagged "Mock-Fallback" exactly when a
\* provider was asked during the invocation and failed; in offline mode no
\* provider is asked and the tag is "Mock-Development".
DegradedTag ==
  (CurrentDone /\ svc.result.origin = "synthetic") =>
    /\ svc.result.source \in {"Mock-Fallback", "Mock-Development"}
    /\ svc.result.stationType = svc.result.source
    /\ (svc.result.source = "Mock-Fallback") <=>
         (owmCalls > 0 /\ PrimaryTried /\ OwmFailed(svc.owmResp)
            /\ (SecondaryTried => IqFailed(svc.iqResp)))
    /\ Offline => (svc.result.source = "Mock-Development" /\ owmCalls = 0)

\* A provider was asked, failed, and the synthetic reading says so.
DegradedReturned ==
  /\ CurrentDone
  /\ owmCalls > 0
  /\ iqCalls > 0
  /\ OwmFailed(svc.owmResp)
  /\ IqFailed(svc.iqResp)
  /\ svc.result.source = "Mock-Fallback"


(***************************************************************************)
(* Properties of GET /api/aqi and the store, checked under Spec.           *)
(***************************************************************************)
KnownSources ==
  {"OpenWeatherMap", "IQAir", "Mock-Fallback", "Mock-Development", "Mock-CPCB"}

LiveOrigins == {"OpenWeatherMap", "IQAir"}

Fetched(r) == req[r].freshData # Undefined

ServedFromStore(r) ==
  req[r].pc = "done" /\ req[r].response.meta.source = "cache"

MarkedReal(response) ==
  "isRealData" \in DOMAIN response.meta /\ response.meta.isRealData = TRUE

KeyOf(l) == <<l.latitude, l.longitude>>

\* The stored row c holds the reading f as it was saved.
SavedAs(c, f) ==
  /\ c.aqi = f.value
  /\ c.category = f.category
  /\ c.pm25 = f.pm25
  /\ c.pm10 = f.pm10
  /\ c.no2 = f.no2
  /\ c.so2 = f.so2
  /\ c.co = f.co
  /\ c.o3 = f.o3
  /\ c.source = f.source
  /\ c.timestamp = f.lastUpdated

\* The response holds the stored row c.
ServedAs(response, c) ==
  /\ response.value = c.aqi
  /\ response.pm25 = c.pm25
  /\ response.pm10 = c.pm10
  /\ response.no2 = c.no2
  /\ response.so2 = c.so2
  /\ response.co = c.co
  /\ response.o3 = c.o3
  /\ response.source = c.source
  /\ response.lastUpdated = c.timestamp

\* C4: every answer of GET /api/aqi, fetched or served from the store, and
\* every reading RealAQIService returns, carries one of the source tags, and
\* is marked isRealData only when a live provider produced it.
SourceTagged ==
  /\ \A r \in Requests :
       req[r].pc = "done" =>
         /\ req[r].response.source \in KnownSources
         /\ MarkedReal(req[r].response) =>
              (Fetched(r) /\ req[r].freshData.origin \in LiveOrigins)
         /\ (Fetched(r) /\ req[r].freshData.origin = "synthetic") =>
              /\ "isRealData" \in DOMAIN req[r].response.meta
              /\ req[r].response.meta.isRealData = FALSE
  /\ CurrentDone =>
       /\ svc.result.source \in KnownSources
       /\ svc.result.isRealData = TRUE => svc.result.origin \in LiveOrigins

\* One request was answered with a fetched reading and another from the
\* store, both tagged.
BothKindsAnswered ==
  \E r1, r2 \in Requests :
    /\ req[r1].pc = "done"
    /\ Fetched(r1)
    /\ req[r1].response.meta.source = "external_api"
    /\ req[r1].response.source \in KnownSources
    /\ ServedFromStore(r2)
    /\ req[r2].response.source \in KnownSources

\* C6: when GET /api/aqi misses the store, real data is enabled, the
\* OpenWeatherMap key is configured and OpenWeatherMap answers, the response
\* is OpenWeatherMap's reading: source "OpenWeatherMap", isRealData true.
PrimaryServedOnMiss ==
  \A r \in Requests :
    (req[r].pc = "done" /\ Fetched(r) /\ useRealData
       /\ openWeatherApiKey = "key" /\ owmUp) =>
      /\ req[r].response.source = "OpenWeatherMap"
      /\ MarkedReal(req[r].response)


\* The rows of aqi_logs under the location row with this id.
RowsOf(id) == {g \in logs : g.locationId = id}

\* The location holds a row observed at most 60 minutes ago.
HasFreshRow(id) == \E g \in RowsOf(id) : now - g.timestamp <= 60

LeavesLookup(r, stage) == req[r].pc = stage /\ req'[r].pc # stage

\* No read path removes a row: rows of both tables stay, keys unchanged.
StoreKept ==
  /\ logs \subseteq logs'
  /\ \A l \in locations : \E m \in locations' : m.id = l.id /\ KeyOf(m) = KeyOf(l)

IsLatestSaved(c, id) ==
  /\ c \in RowsOf(id)
  /\ \A g \in RowsOf(id) : g.timestamp <= c.timestamp
  /\ \E r \in Requests : req[r].saved /\ SavedAs(c, req[r].freshData)

\* C8, as amended: a lookup whose queries succeed returns, of the readings
\* saved for the location, one with the latest observation time, identical
\* in index value, category, pollutants, source and observation time to the
\* reading as saved; it is the most recently saved one only when saves arrive
\* in the order of their observation times.
LookupReturnsLatestObserved ==
  [][ /\ \A r \in Requests :
           LeavesLookup(r, "findFirst") =>
             /\ (req'[r].cachedData # Undefined) =>
                  IsLatestSaved(req'[r].cachedData.log, req[r].location.id)
             /\ (req'[r].pc = "done") =>
                  ServedAs(req'[r].response, req'[r].cachedData.log)
             /\ (req'[r].cachedData = Undefined) =>
                  (req'[r].lookupFailed \/ RowsOf(req[r].location.id) = {})
      /\ (probe.pc = "findFirst" /\ probe'.pc # "findFirst") =>
           /\ (probe'.status = 200) =>
                IsLatestSaved(probe'.cachedData.log, probe.location.id)
           /\ (probe'.status = 404) =>
                (faults' > faults \/ RowsOf(probe.location.id) = {}) ]_vars

\* C8, as claimed: a lookup made while the most recently saved reading of
\* the location is within the freshness window returns that reading.
LookupReturnsLastSaved ==
  [][ (probe.pc = "findFirst" /\ probe'.status = 200) =>
        \A g \in RowsOf(probe.location.id) :
          ((\A h \in RowsOf(probe.location.id) : h.id <= g.id)
             /\ now - g.timestamp <= 60) =>
            probe'.cachedData.log = g ]_vars

\* Two readings were saved for one location and a lookup returned one of
\* them.
LookupAfterTwoSaves ==
  /\ probe.pc = "done"
  /\ probe.status = 200
  /\ \E g \in logs :
       /\ g.locationId = probe.cachedData.log.locationId
       /\ g.id # probe.cachedData.log.id
       /\ g.timestamp < probe.cachedData.log.timestamp

WholeRow(cachedData) ==
  \E r \in Requests :
    /\ req[r].saved
    /\ SavedAs(cachedData.log, req[r].freshData)
    /\ KeyOf(cachedData.location) = req[r].coord
    /\ cachedData.location.id = cachedData.log.locationId

OneRowPerKey ==
  /\ \A l1, l2 \in locations : KeyOf(l1) = KeyOf(l2) => l1 = l2
  /\ \A r \in Requests :
       req[r].saved => \E l \in locations : KeyOf(l) = req[r].coord
  /\ \A r \in Requests :
       req[r].cachedData # Undefined => WholeRow(req[r].cachedData)
  /\ probe.cachedData # Undefined => WholeRow(probe.cachedData)

\* C10, as amended: however the saves for one key interleave, the store
\* holds one location row for the key, every save that completes has its row
\* under it, and every lookup returns one saved reading whole.  A lookup at
\* coordinates that have a location row of their own resolves to that row; a
\* lookup at coordinates without one resolves to the nearest other key within
\* the radius, so a save under one key does change lookups at another.
OneLocationWholeReadings ==
  /\ []OneRowPerKey
  /\ [][ /\ \A r \in Requests :
              (req[r].pc = "queryRaw" /\ req'[r].pc = "findFirst"
                 /\ \E l \in locations : l.isActive /\ KeyOf(l) = req[r].coord) =>
                KeyOf(req'[r].location) = req[r].coord
         /\ (probe.pc = "queryRaw" /\ probe'.pc = "findFirst"
               /\ \E l \in locations : l.isActive /\ KeyOf(l) = probe.coord) =>
              KeyOf(probe'.location) = probe.coord ]_vars

\* C10, as claimed, its last part: what a lookup returns was saved under the
\* key the lookup was made for.
LookupsOfOtherKeysApart ==
  /\ \A r \in Requests :
       req[r].cachedData # Undefined => KeyOf(req[r].cachedData.location) = req[r].coord
  /\ probe.cachedData # Undefined => KeyOf(probe.cachedData.location) = probe.coord

\* Two requests for the same coordinates both missed at the same minute,
\* both saved, the key has one location row holding both readings, and a
\* lookup returned one of them.
ConcurrentSavesOneKey ==
  \E r1, r2 \in Requests :
    /\ r1 # r2
    /\ req[r1].coord = req[r2].coord
    /\ req[r1].saved /\ req[r2].saved
    /\ ~req[r1].lookupFailed /\ ~req[r2].lookupFailed
    /\ req[r1].cachedData = Undefined /\ req[r2].cachedData = Undefined
    /\ Cardinality({l \in locations : KeyOf(l) = req[r1].coord}) = 1
    /\ Cardinality(logs) = 2
    /\ probe.pc = "done"
    /\ probe.status = 200
    /\ KeyOf(probe.cachedData.location) = req[r1].coord


(***************************************************************************)
(* Properties of the entry points, checked under SpecEntry.                *)
(***************************************************************************)
\* A text that is a number from its first character to its last: an
\* optional sign, digits, and optionally a point followed by digits.
IsNumeral(text) ==
  LET body == IF text # <<>> /\ Head(text) = "-" THEN Tail(text) ELSE text
      int == DigitPrefix(body)
      rest == SubSeq(body, Len(int) + 1, Len(body))
  IN /\ int # <<>>
     /\ \/ rest = <<>>
        \/ /\ Head(rest) = "."
           /\ Tail(rest) # <<>>
           /\ DigitPrefix(Tail(rest)) = Tail(rest)

\* A coordinate that is not a number, or a number beyond the limit (in
\* degrees) on either side.
BadCoordinate(x, limit) ==
  \/ ~x.given
  \/ ~IsNumeral(x.text)
  \/ parseFloat(x).val < -10000 * limit
  \/ parseFloat(x).val > 10000 * limit

BadCoordinates ==
  BadCoordinate(entry.lat, 90) \/ BadCoordinate(entry.lng, 180)

NothingCalled ==
  /\ entry.pc # "accepted"
  /\ entry.lookups = 0
  /\ entry.currentFetches = 0
  /\ entry.forecastFetches = 0

\* C11: a GET /api/aqi request whose latitude is outside [-90, 90], whose
\* longitude is outside [-180, 180] or whose coordinate is not a number is
\* answered with an error, and neither the lookup nor the fetch is made.
InvalidAqiRejected ==
  entry.route = "aqi" /\ BadCoordinates =>
    NothingCalled /\ entry.status = 400

\* The part of C11 about the parsed value: a coordinate parseFloat gives no
\* number for, or a number out of range, is rejected before the lookup.
UnparsedAqiRejected ==
  entry.route = "aqi"
    /\ (InvalidLatitude(parseFloat(entry.lat))
          \/ InvalidLongitude(parseFloat(entry.lng))) =>
    NothingCalled /\ entry.status = 400

\* GET /api/aqi looks up and fetches for a latitude text that is no number.
AqiNonNumeralServed ==
  /\ entry.route = "aqi"
  /\ entry.pc = "done"
  /\ ~IsNumeral(entry.lat.text)
  /\ entry.lookups = 1
  /\ entry.currentFetches = 1

\* The coordinates parseFloat gives no number for, or a number out of range.
UnparsedCoordinates ==
  \/ InvalidLatitude(parseFloat(entry.lat))
  \/ InvalidLongitude(parseFloat(entry.lng))

\* C12: a request to GET /api/forecast, GET /api/forecast/daily or GET
\* /api/ai-forecast that gives coordinates (no city) of which one is out
\* of range or no number makes no call of fetchForecastData or
\* fetchRealTimeAQI.
InvalidForecastRejected ==
  entry.route \in {"forecast", "daily", "aiForecast"}
    /\ Falsy(entry.city) /\ UnparsedCoordinates =>
    NothingCalled

\* The part of C12 that GET /api/forecast keeps.
UnparsedForecastRejected ==
  entry.route = "forecast" /\ Falsy(entry.city) /\ UnparsedCoordinates =>
    NothingCalled

\* GET /api/forecast/daily fetches a forecast for a latitude out of range.
DailyOutOfRangeFetched ==
  /\ entry.route = "daily"
  /\ entry.pc = "done"
  /\ IsNum(entry.latitude) /\ entry.latitude.val > 900000
  /\ entry.forecastFetches = 1

\* GET /api/ai-forecast fetches for a latitude out of range.
AiForecastOutOfRangeFetched ==
  /\ entry.route = "aiForecast"
  /\ entry.pc = "done"
  /\ IsNum(entry.latitude) /\ entry.latitude.val > 900000
  /\ entry.currentFetches = 1
  /\ entry.forecastFetches = 1

\* C20: a forecast request for the location of the previous one, made
\* within three hours of it, is answered without a call of the provider
\* pipeline.
RepeatedForecastFromCache ==
  entry.route = "forecast" /\ entry.repeats => entry.forecastFetches = 0


(***************************************************************************)
(* Properties of the converter and the categorisers, checked under         *)
(* SpecConv.                                                               *)
(***************************************************************************)
Converted == conv.pc = "done" /\ conv.fn = "convertToIndianAQI"

\* The sub-indices of the pollutants given among PM2.5, PM10 and NO2.
SubIndicesOf(pm25, pm10, no2) ==
  {calculateSubIndex(pm25, PM25Breakpoints) : x \in {pm25} \ {Undefined}}
    \cup {calculateSubIndex(pm10, PM10Breakpoints) : x \in {pm10} \ {Undefined}}
    \cup {calculateSubIndex(no2, NO2Breakpoints) : x \in {no2} \ {Undefined}}

\* The largest of a non-empty set of rationals.
Largest(S) == CHOOSE m \in S : \A x \in S : RatLeq(x, m)

Rounded(r) == MathRound(r[1], r[2])

\* Leaving out a pollutant whose sub-index is below the largest of the
\* others gives the same index.
LowerPollutantIgnored ==
  /\ LET others == SubIndicesOf(Undefined, conv.pm10, conv.no2)
     IN conv.pm25 # Undefined /\ others # {}
          /\ ~RatLeq(Largest(others), calculateSubIndex(conv.pm25, PM25Breakpoints))
        => conv.index = convertToIndianAQI(Undefined, conv.pm10, conv.no2,
                                           conv.so2, conv.co, conv.o3)
  /\ LET others == SubIndicesOf(conv.pm25, Undefined, conv.no2)
     IN conv.pm10 # Undefined /\ others # {}
          /\ ~RatLeq(Largest(others), calculateSubIndex(conv.pm10, PM10Breakpoints))
        => conv.index = convertToIndianAQI(conv.pm25, Undefined, conv.no2,
                                           conv.so2, conv.co, conv.o3)
  /\ LET others == SubIndicesOf(conv.pm25, conv.pm10, Undefined)
     IN conv.no2 # Undefined /\ others # {}
          /\ ~RatLeq(Largest(others), calculateSubIndex(conv.no2, NO2Breakpoints))
        => conv.index = convertToIndianAQI(conv.pm25, conv.pm10, Undefined,
                                           conv.so2, conv.co, conv.o3)

\* C13 as stated: the overall index is an integer in 1..500, it is the
\* rounded maximum of the sub-indices, and a pollutant with a lower
\* sub-index than the maximum leaves it unchanged.
OverallIsRoundedMax ==
  Converted =>
    /\ conv.index \in 1..500
    /\ LET subs == SubIndicesOf(conv.pm25, conv.pm10, conv.no2)
       IN subs # {} => conv.index = Rounded(Largest(subs))
    /\ LowerPollutantIgnored

\* C13: the overall index is an integer in 1..500, it is the rounded
\* maximum of 1 and the sub-indices of the pollutants given among PM2.5,
\* PM10 and NO2, and a pollutant with a lower sub-index than the maximum
\* of the others leaves it unchanged.
OverallIsRoundedMaxOrOne ==
  Converted =>
    /\ conv.index \in 1..500
    /\ conv.index =
         Rounded(Largest(SubIndicesOf(conv.pm25, conv.pm10, conv.no2)
                           \cup {<<1, 1>>}))
    /\ LowerPollutantIgnored

\* PM2.5 = 35 and PM10 = 40 give 59, Satisfactory.
ExampleGives59 ==
  /\ Converted
  /\ conv.pm25 = Num(3500)
  /\ conv.pm10 = Num(4000)
  /\ conv.no2 = Undefined
  /\ conv.index = 59
  /\ getAQICategory(conv.index) = "Satisfactory"


SubIndexed == conv.pc = "done" /\ conv.fn = "calculateSubIndex"

\* The upper bound of the last segment of a table, in 1/100 ug/m3.
TopBound(table) ==
  100 * BreakpointsOf(table)[Len(BreakpointsOf(table))].cHigh

Exceeds(c, table) == IsNum(c) /\ c.val > TopBound(table)

InTable(c, table) == IsNum(c) /\ c.val >= 0 /\ c.val <= TopBound(table)

IsMaximum(s) == s[1] = 500 * s[2]

\* C14: calculateSubIndex returns 500 for every concentration above the
\* upper bound of every segment, and for a concentration outside the
\* covered range it returns 500 in that case only.
MaximumOnlyBeyondTable ==
  SubIndexed =>
    /\ Exceeds(conv.c1, conv.table) => IsMaximum(conv.sub1)
    /\ IsMaximum(conv.sub1) /\ ~InTable(conv.c1, conv.table)
         => Exceeds(conv.c1, conv.table)

\* The part of C14 that holds: 500 above the table, and within the table a
\* value between the index bounds of a segment that holds the concentration.
BeyondTableGivesMaximum ==
  SubIndexed =>
    /\ Exceeds(conv.c1, conv.table) => IsMaximum(conv.sub1)
    /\ InTable(conv.c1, conv.table) =>
         \E k \in 1..Len(BreakpointsOf(conv.table)) :
           LET bp == BreakpointsOf(conv.table)[k]
           IN /\ conv.c1.val >= 100 * bp.cLow
              /\ conv.c1.val <= 100 * bp.cHigh
              /\ RatLeq(<<bp.iLow, 1>>, conv.sub1)
              /\ RatLeq(conv.sub1, <<bp.iHigh, 1>>)

\* A concentration below zero is given the maximum.
NegativeGivesMaximum ==
  /\ SubIndexed
  /\ IsNum(conv.c1) /\ conv.c1.val < 0
  /\ IsMaximum(conv.sub1)

\* A concentration that is not a number is given the maximum.
NaNGivesMaximum ==
  /\ SubIndexed
  /\ conv.c1 = NaN
  /\ IsMaximum(conv.sub1)


\* C15: for each table and concentrations c1 <= c2 within its covered
\* range, the sub-index of c1 is at most the sub-index of c2.
SubIndexMonotone ==
  SubIndexed /\ InTable(conv.c1, conv.table) /\ InTable(conv.c2, conv.table)
    /\ conv.c1.val <= conv.c2.val =>
    RatLeq(conv.sub1, conv.sub2)

\* Two concentrations on either side of an endpoint two segments share:
\* the endpoint itself, in the lower segment, and the next value above it.
AcrossSharedEndpoint ==
  /\ SubIndexed
  /\ \E k \in 1..(Len(BreakpointsOf(conv.table)) - 1) :
       /\ conv.c1 = Num(100 * BreakpointsOf(conv.table)[k].cHigh)
       /\ conv.c2 = Num(100 * BreakpointsOf(conv.table)[k].cHigh + 1)
       /\ RatLeq(conv.sub1, <<BreakpointsOf(conv.table)[k].iHigh, 1>>)
       /\ RatLeq(<<BreakpointsOf(conv.table)[k].iHigh, 1>>, conv.sub1)
       /\ RatLeq(<<BreakpointsOf(conv.table)[k + 1].iLow, 1>>, conv.sub2)
       /\ ~RatLeq(conv.sub2, conv.sub1)


\* C16: SO2, CO and O3 have sub-indices of their own, so that a
\* concentration of one of them beyond every segment of a table (2000
\* ug/m3), given with PM2.5, PM10 and NO2 whose index is at most 400, sets
\* the overall index above 400.
OtherPollutantsDetermine ==
  Converted
    /\ Extreme \in {conv.so2, conv.co, conv.o3}
    /\ Rounded(Largest(SubIndicesOf(conv.pm25, conv.pm10, conv.no2)
                         \cup {<<1, 1>>})) <= 400 =>
    conv.index > 400

\* The index convertToIndianAQI returns is the one it returns without SO2,
\* CO and O3.
OtherPollutantsUnread ==
  Converted =>
    conv.index = convertToIndianAQI(conv.pm25, conv.pm10, conv.no2,
                                    Undefined, Undefined, Undefined)

\* An extreme SO2 concentration given with PM2.5 = 35 and PM10 = 40 leaves
\* the index at 59.
ExtremeSO2Ignored ==
  /\ Converted
  /\ conv.so2 = Extreme
  /\ conv.pm25 = Num(3500)
  /\ conv.pm10 = Num(4000)
  /\ conv.index = 59


Categorized == conv.pc = "done" /\ conv.fn = "categorize"

\* The six buckets of the scale, with every value above 500 in the last.
Buckets ==
  { [label |-> "Good", values |-> 0..50],
    [label |-> "Satisfactory", values |-> 51..100],
    [label |-> "Moderate", values |-> 101..200],
    [label |-> "Poor", values |-> 201..300],
    [label |-> "Very Poor", values |-> 301..400],
    [label |-> "Severe", values |-> 401..MaxIndex] }

\* C17: for every integer index value v >= 0, categorizeAQI and
\* getAQICategory give the same bucket, the only one of the six that
\* holds v.
CategorisersAgree ==
  Categorized =>
    /\ conv.label = conv.name
    /\ \A b \in Buckets : conv.aqi \in b.values <=> b.label = conv.name
    /\ \E b \in Buckets : conv.aqi \in b.values

\* A value above 500 is Severe for both.
AboveScaleSevere ==
  /\ Categorized
  /\ conv.aqi > 500
  /\ conv.category = "SEVERE"
  /\ conv.label = "Severe"
  /\ conv.name = "Severe"


(***************************************************************************)
(* Properties of the forecast series, checked under SpecSvc.               *)
(***************************************************************************)
ForecastDone == svc.pc = "done" /\ svc.op = "forecast"

\* hoursAhead counts 1, 2, ... along the series and confidence never rises.
SeriesOrdered(f) ==
  /\ \A i \in 1..Len(f) : f[i].hoursAhead = i
  /\ \A i \in 1..(Len(f) - 1) : RatLeq(f[i + 1].confidence, f[i].confidence)

\* C18 as stated: for a horizon h the series has exactly h points, from
\* the provider or from the generator, hoursAhead 1..h in order and
\* confidence non-increasing.
ExactlyHorizonPoints ==
  ForecastDone =>
    /\ Len(svc.result.forecast) = svc.hours
    /\ SeriesOrdered(svc.result.forecast)

\* C18: a series of the generator has exactly h points, a series of the
\* provider has as many points as the provider's list up to h; hoursAhead
\* is 1, 2, ... in order and confidence non-increasing.
HorizonOrProviderPoints ==
  ForecastDone =>
    /\ Len(svc.result.forecast) =
         IF svc.result.source = "real_api"
           THEN Min(svc.hours, svc.listLength) ELSE svc.hours
    /\ SeriesOrdered(svc.result.forecast)

\* The provider's list is shorter than the horizon and the series is the
\* provider's.
ShortProviderSeries ==
  /\ ForecastDone
  /\ svc.result.source = "real_api"
  /\ svc.listLength < svc.hours
  /\ Len(svc.result.forecast) = svc.listLength

\* The provider call failed, timed out or returned no list or an empty one.
ForecastUnavailable ==
  svc.fcStatus \in {"network", "timeout", "auth"}
    \/ (svc.fcStatus = "ok" /\ svc.listLength = 0)

\* C19: when the provider call fails, times out or returns an empty list,
\* fetchForecastData returns a series tagged source mock_data, isRealData
\* false, whose confidence lies in [0, 1] and falls by the same amount,
\* 0.2 / hours, from each point to the next.
SyntheticOnFailure ==
  ForecastDone /\ ForecastUnavailable =>
    /\ IsReading(svc.result)
    /\ svc.result.source = "mock_data"
    /\ svc.result.isRealData = FALSE
    /\ Len(svc.result.forecast) = svc.hours
    /\ \A i \in 1..svc.hours :
         LET c == svc.result.forecast[i].confidence
         IN /\ RatLeq(<<0, 1>>, c) /\ RatLeq(c, <<1, 1>>)
            /\ svc.result.forecast[i].hoursAhead = i
            /\ c[1] * 100 * svc.hours = (75 * svc.hours - 20 * i) * c[2]

\* A provider call that timed out, answered by a synthetic series of
\* three points.
TimeoutGivesSynthetic ==
  /\ ForecastDone
  /\ svc.fcStatus = "timeout"
  /\ svc.hours = MaxHours
  /\ svc.result.source = "mock_data"
  /\ Len(svc.result.forecast) = MaxHours


(***************************************************************************)
(* Properties of the synthetic readings and of one invocation of           *)
(* fetchRealTimeAQI, checked under SpecSvc.                                *)
(***************************************************************************)
SyntheticDone ==
  CurrentDone /\ IsReading(svc.result) /\ svc.result.origin = "synthetic"

\* C21: a synthetic current reading has an integer index within
\* [baseline - 20, baseline + 19] of the nearest city's baseline clamped to
\* 1..500, it is tagged synthetic, and it differs by at most 39 from the
\* synthetic reading given before it for the same coordinate.
SyntheticWithinNoise ==
  SyntheticDone =>
    LET baseline == getCityMockData(svc.coord).baseAQI
        value == svc.result.value
    IN /\ value \in 1..500
       /\ value >= Max(1, Min(500, baseline - 20))
       /\ value <= Max(1, Min(500, baseline + 19))
       /\ svc.result.isRealData = FALSE
       /\ svc.result.source \in {"Mock-Development", "Mock-Fallback"}
       /\ svc.last.set /\ svc.last.synthetic /\ svc.last.coord = svc.coord
            => /\ value - svc.last.value <= 39
               /\ svc.last.value - value <= 39

\* Two synthetic readings for Mumbai, 39 apart.
TwoSyntheticApart ==
  /\ SyntheticDone
  /\ svc.coord = Mumbai
  /\ svc.last.set /\ svc.last.synthetic /\ svc.last.coord = Mumbai
  /\ svc.last.value = 100
  /\ svc.result.value = 139


\* C22: a reading of the primary is returned only when the primary's
\* response holds a PM2.5 value, and a reading of the secondary only when
\* the secondary's response holds one; without it the next source is asked.
UsableNeedsPM25 ==
  CurrentDone /\ IsReading(svc.result) =>
    /\ svc.result.origin = "OpenWeatherMap" =>
         IsNum(svc.owmResp.list[1].components.pm2_5)
    /\ svc.result.origin = "IQAir" =>
         IsNum(svc.iqResp.data.pollution.p2)

\* The primary's response has no PM2.5 value; its reading is returned and
\* the secondary is not asked.
PrimaryWithoutPM25Returned ==
  /\ CurrentDone
  /\ svc.result.origin = "OpenWeatherMap"
  /\ svc.owmResp.list[1].components.pm2_5 = Undefined
  /\ svc.result.pm25 = NaN
  /\ iqCalls = 0

\* The secondary's response has no PM2.5 value; its reading is returned
\* with PM2.5 reported as 0.
SecondaryWithoutPM25Returned ==
  /\ CurrentDone
  /\ svc.result.origin = "IQAir"
  /\ svc.iqResp.data.pollution.p2 = Undefined
  /\ svc.result.pm25 = Num(0)


\* C23: within one invocation each adapter is called at most once, the
\* secondary only after the primary call has ended in a failure, and the
\* reading returned is, whole, the reading of one source.
SequentialSingleSource ==
  /\ owmCalls <= 1
  /\ iqCalls <= 1
  /\ iqCalls = 1 \/ svc.pc = "iqair" =>
       /\ owmCalls = 1
       /\ PrimaryTried
       /\ svc.owmData = Null
  /\ CurrentDone /\ IsReading(svc.result) =>
       /\ svc.result.origin = "OpenWeatherMap" =>
            svc.result = svc.owmData /\ iqCalls = 0
       /\ svc.result.origin = "IQAir" => svc.result = svc.iqAirData
       /\ svc.result.origin = "synthetic" =>
            \E isError \in BOOLEAN, rnd \in RandomDraws :
              svc.result = getMockAQIData(svc.coord, isError, rnd)

\* The secondary is in flight after the primary timed out.
SecondaryAfterPrimaryTimeout ==
  /\ svc.pc = "iqair"
  /\ svc.owmResp.status = "timeout"
  /\ owmCalls = 1
  /\ iqCalls = 1


(***************************************************************************)
(* Termination of fetchRealTimeAQI, checked under SpecSvcFair.             *)
(***************************************************************************)
CurrentInvoked == svc.op = "current" /\ svc.pc \in {"owm", "iqair", "done"}

\* C24: every invocation of fetchRealTimeAQI returns a reading, having
\* waited for at most one primary call and at most one secondary call.
InvocationReturns ==
  /\ [](owmCalls <= 1 /\ iqCalls <= 1)
  /\ CurrentInvoked ~> (CurrentDone /\ IsReading(svc.result))

\* Both calls timed out and the generator's reading is returned.
TwoTimeoutsThenSynthetic ==
  /\ CurrentDone
  /\ svc.owmResp.status = "timeout"
  /\ svc.iqResp.status = "timeout"
  /\ owmCalls = 1
  /\ iqCalls = 1
  /\ svc.result.source = "Mock-Fallback"


(***************************************************************************)
(* Properties of getLatestAQI and of the route under storage failures,     *)
(* checked under Spec.                                                     *)
(***************************************************************************)
DistanceTo(p, l) == calculateDistance(p, <<l.latitude, l.longitude>>)

WithinRadius(p, radius) == {l \in locations : DistanceTo(p, l) <= radius}

\* l is a stored, active location within the radius of p, and no stored
\* location within the radius is nearer.
IsNearestStored(l, p, radius) ==
  /\ l \in WithinRadius(p, radius)
  /\ l.isActive
  /\ \A m \in WithinRadius(p, radius) : DistanceTo(p, l) <= DistanceTo(p, m)

\* row is a stored reading of location l, joined with it, and no reading
\* of l has a later timestamp.
IsLatestReadingOf(row, l) ==
  /\ row.log \in logs
  /\ row.log.locationId = l.id
  /\ row.location = l
  /\ \A h \in logs : h.locationId = l.id => h.timestamp <= row.log.timestamp

HasRow(x) == "log" \in DOMAIN x

\* C25: the location query of getLatestAQI gives a stored, active location
\* within the radius with no stored location nearer, and none only when no
\* stored location lies within the radius or the query fails; the reading
\* query gives that location's reading with the latest timestamp.
LookupNearestLatest ==
  [][ /\ \A r \in Requests :
           /\ req[r].pc = "queryRaw" /\ req'[r].pc = "findFirst" =>
                IsNearestStored(req'[r].location, req[r].coord, req[r].radius)
           /\ req[r].pc = "queryRaw" /\ req'[r].pc # req[r].pc
                /\ WithinRadius(req[r].coord, req[r].radius) = {} =>
                ~HasRow(req'[r].cachedData) /\ req'[r].pc = "upsertFind"
           /\ req[r].pc = "findFirst" /\ HasRow(req'[r].cachedData) =>
                IsLatestReadingOf(req'[r].cachedData, req[r].location)
      /\ probe.pc = "queryRaw" /\ probe'.pc = "findFirst" =>
           IsNearestStored(probe'.location, probe.coord, NearestRadius)
      /\ probe.pc = "queryRaw" /\ probe'.pc # probe.pc
           /\ WithinRadius(probe.coord, NearestRadius) = {} =>
           probe'.status = 404
      /\ probe.pc = "findFirst" /\ HasRow(probe'.cachedData) =>
           IsLatestReadingOf(probe'.cachedData, probe.location)
    ]_vars

\* Two locations are stored within the radius of a lookup, which is given
\* the nearer one's reading.
NearerOfTwoReturned ==
  /\ probe.pc = "done"
  /\ probe.status = 200
  /\ Cardinality(WithinRadius(probe.coord, NearestRadius)) = 2
  /\ \E m \in WithinRadius(probe.coord, NearestRadius) :
       DistanceTo(probe.coord, probe.cachedData.location) < DistanceTo(probe.coord, m)


(***************************************************************************)
(* Further properties of the converter, checked under SpecConv.            *)
(***************************************************************************)
\* An argument with null read as absent.
NullAsAbsent(x) == IF x = Null THEN Undefined ELSE x

\* How many of the three arguments are in the set.
CountIn(S) ==
  (IF conv.pm25 \in S THEN 1 ELSE 0) + (IF conv.pm10 \in S THEN 1 ELSE 0)
    + (IF conv.no2 \in S THEN 1 ELSE 0)

\* The index is the one computed with null read as absent.
SameAsWithoutNull ==
  conv.index = convertToIndianAQI(NullAsAbsent(conv.pm25),
                 NullAsAbsent(conv.pm10), NullAsAbsent(conv.no2),
                 conv.so2, conv.co, conv.o3)

\* C26 as stated: an absent or null pollutant is left out of the index
\* calculation: no sub-index is computed for it, none at concentration 0
\* either, and the index is the one of the remaining pollutants.
NullAndAbsentExcluded ==
  Converted =>
    /\ Len(conv.pushed) = 3 - CountIn({Undefined, Null})
    /\ SameAsWithoutNull

\* What holds in place of C26: an absent pollutant is left out of the
\* index calculation; a null one is evaluated, as concentration 0 with
\* sub-index 0, which leaves the index what it is without it.
AbsentExcludedNullAsZero ==
  Converted =>
    /\ Len(conv.pushed) = 3 - CountIn({Undefined})
    /\ conv.pm25 = Null => conv.pushed[1] = <<0, 3000>>
    /\ SameAsWithoutNull

\* PM2.5 null with PM10 = 40: a sub-index 0 is computed for PM2.5 and the
\* index is the 40 of PM10 alone.
NullEvaluatedAsZero ==
  /\ Converted
  /\ conv.pm25 = Null
  /\ conv.pm10 = Num(4000)
  /\ conv.no2 = Undefined
  /\ Len(conv.pushed) = 2
  /\ conv.index = 40


(***************************************************************************)
(* The reading of the secondary adapter, checked under SpecSvc.            *)
(***************************************************************************)
SecondaryDone ==
  CurrentDone /\ IsReading(svc.result) /\ svc.result.origin = "IQAir"

\* C27: in a reading of the IQAir adapter every pollutant the provider did
\* not supply is null, not a number.
UnsuppliedReportedNull ==
  SecondaryDone =>
    /\ svc.iqResp.data.pollution.p2 = Undefined => svc.result.pm25 = Null
    /\ svc.iqResp.data.pollution.p1 = Undefined => svc.result.pm10 = Null
    /\ svc.result.no2 = Null
    /\ svc.result.so2 = Null
    /\ svc.result.co = Null
    /\ svc.result.o3 = Null

\* What holds in place of C27: NO2, SO2, CO and O3 are null; PM2.5 and
\* PM10 are the provider's value, or 0 when it supplied none.
UnsuppliedParticulatesZero ==
  SecondaryDone =>
    /\ svc.result.pm25 =
         IF IsNum(svc.iqResp.data.pollution.p2)
           THEN svc.iqResp.data.pollution.p2 ELSE Num(0)
    /\ svc.result.pm10 =
         IF IsNum(svc.iqResp.data.pollution.p1)
           THEN svc.iqResp.data.pollution.p1 ELSE Num(0)
    /\ svc.result.no2 = Null
    /\ svc.result.so2 = Null
    /\ svc.result.co = Null
    /\ svc.result.o3 = Null

\* An IQAir reading with the PM10 the provider did not supply reported
\* as 0 next to a supplied PM2.5.
UnsuppliedPM10Zero ==
  /\ SecondaryDone
  /\ IsNum(svc.iqResp.data.pollution.p2)
  /\ svc.iqResp.data.pollution.p1 = Undefined
  /\ svc.result.pm10 = Num(0)


(***************************************************************************)
(* Properties of calculateForecastSummary, checked under SpecConv.         *)
(***************************************************************************)
Summarized == conv.pc = "done" /\ conv.fn = "calculateForecastSummary"

SeriesValues == {conv.series[i].predictedAqi : i \in 1..Len(conv.series)}

\* How many points of the series have the category.
PointsIn(cat) ==
  Cardinality({i \in 1..Len(conv.series) : conv.series[i].category = cat})

\* min <= avg <= max, and the dominant category is one no other category
\* has more points than.
SummaryStatistics ==
  /\ conv.summary.minAqi \in SeriesValues
  /\ conv.summary.maxAqi \in SeriesValues
  /\ \A v \in SeriesValues : conv.summary.minAqi <= v /\ v <= conv.summary.maxAqi
  /\ conv.summary.minAqi <= conv.summary.avgAqi
  /\ conv.summary.avgAqi <= conv.summary.maxAqi
  /\ PointsIn(conv.summary.mostCommonCategory) > 0
  /\ \A i \in 1..Len(conv.series) :
       PointsIn(conv.series[i].category) <= PointsIn(conv.summary.mostCommonCategory)

\* The sums of the first and of the last q points.
FirstSum(q) == Sum([i \in 1..q |-> conv.series[i].predictedAqi])

LastSum(q) ==
  Sum([i \in 1..q |-> conv.series[Len(conv.series) - q + i].predictedAqi])

\* trend and trendChange compare the averages of the first and of the last
\* q points, with q > 0.
TrendOfQuarters(q) ==
  /\ conv.summary.trend =
       IF LastSum(q) - FirstSum(q) > 10 * q THEN "worsening"
       ELSE IF LastSum(q) - FirstSum(q) < -10 * q THEN "improving"
       ELSE "stable"
  /\ conv.summary.trendChange = Num(MathRound(LastSum(q) - FirstSum(q), q))

\* C28: for every series of 1 or more points the summary has min <= avg <=
\* max, a dominant category with the highest point count, a numeric
\* trendChange, and, where a quarter of the series is at least one point,
\* the trend of the first quarter against the last.
SummaryWellDefined ==
  Summarized =>
    /\ SummaryStatistics
    /\ IsNum(conv.summary.trendChange)
    /\ Len(conv.series) >= 4 => TrendOfQuarters(Len(conv.series) \div 4)

\* The part of C28 that holds: the statistics for every series, the trend
\* for series of four points or more.
SummaryOfFourOrMore ==
  Summarized =>
    /\ SummaryStatistics
    /\ Len(conv.series) >= 4 => TrendOfQuarters(Len(conv.series) \div 4)

\* A series of fewer than four points has trendChange NaN and trend stable,
\* its last point 21 above its first.
ShortSeriesTrendNaN ==
  /\ Summarized
  /\ Len(conv.series) = 3
  /\ conv.series[1].predictedAqi = 40
  /\ conv.series[3].predictedAqi = 61
  /\ conv.summary.trendChange = NaN
  /\ conv.summary.trend = "stable"


(***************************************************************************)
(* Storage failures on GET /api/aqi, checked under Spec.                   *)
(***************************************************************************)
\* The response carries a reading (it is not the answer of the outer catch).
IsSuccess(response) == "value" \in DOMAIN response

\* The request was answered from the provider pipeline with the reading it
\* fetched.
AnsweredFresh(r) ==
  /\ IsReading(req[r].freshData)
  /\ IsSuccess(req[r].response)
  /\ req[r].response = formatFreshResponse(req[r].freshData)
  /\ req[r].response.meta.source = "external_api"
  /\ req[r].response.value = req[r].freshData.value

\* C29: every answered request carries a reading; a request whose cache
\* lookup failed went through the provider pipeline, and a request whose
\* fetched reading was not saved is answered with that reading.
StorageFailureAbsorbed ==
  \A r \in Requests :
    req[r].pc = "done" =>
      /\ IsSuccess(req[r].response)
      /\ req[r].lookupFailed => AnsweredFresh(r)
      /\ (IsReading(req[r].freshData) /\ ~req[r].saved) => AnsweredFresh(r)

\* A request whose lookup worked and whose save failed is answered with the
\* reading fetched, and no row of it is in the store.
SaveFailedStillAnswered ==
  \E r \in Requests :
    /\ req[r].pc = "done"
    /\ faults = 1
    /\ ~req[r].lookupFailed
    /\ IsReading(req[r].freshData)
    /\ ~req[r].saved
    /\ logs = {}
    /\ AnsweredFresh(r)

\* A request whose lookup failed is answered with a fetched reading, which
\* was saved.
LookupFailedFetched ==
  \E r \in Requests :
    /\ req[r].pc = "done"
    /\ req[r].lookupFailed
    /\ req[r].saved
    /\ AnsweredFresh(r)


(***************************************************************************)
(* Properties of convertUSAQIToIndian, checked under SpecConv.             *)
(***************************************************************************)
USConverted == conv.pc = "done" /\ conv.fn = "convertUSAQIToIndian"

\* Both results are integers of 0..500.
USConversionInRange ==
  USConverted => conv.indianA \in 0..500 /\ conv.indianB \in 0..500

\* The band of convertUSAQIToIndian a US AQI value falls in.
BandOf(usAQI) ==
  IF usAQI <= 100 THEN 1
  ELSE IF usAQI <= 150 THEN 2
  ELSE IF usAQI <= 200 THEN 3
  ELSE IF usAQI <= 300 THEN 4
  ELSE 5

\* C30: for US AQI values a <= b of 0..500 the Indian AQI of a is at most
\* that of b, and both are integers of 0..500.
USConversionMonotone ==
  USConverted =>
    /\ conv.usA <= conv.usB => conv.indianA <= conv.indianB
    /\ conv.indianA \in 0..500
    /\ conv.indianB \in 0..500

\* The part of C30 that holds: the range, and the order of two values that
\* are not on the two sides of 200 or of 300.
USConversionMonotoneWithinBands ==
  USConverted =>
    /\ conv.indianA \in 0..500
    /\ conv.indianB \in 0..500
    /\ (conv.usA <= conv.usB /\ conv.indianA > conv.indianB) =>
         (conv.usA \in {200, 300} /\ BandOf(conv.usA) # BandOf(conv.usB))

\* US AQI 200 converts to 300 and 201 to 267.
WorseUSBetterIndian ==
  /\ USConverted
  /\ conv.usA = 200 /\ conv.usB = 201
  /\ conv.indianA = 300 /\ conv.indianB = 267

====
